---------------------------- MODULE Spec2Model ----------------------------
(***************************************************************************)
(* State-machine model of the gesture-driven particle display:             *)
(*   - RapidPulseBuffer      (mediapipe/RapidPulseBuffer.ts)               *)
(*   - ParticleSystem        (three/ParticleSystem.ts)                     *)
(*   - useParticleSystem     (hooks/useParticleSystem.ts), target effect   *)
(*   - GestureClassifier     (mediapipe/GestureClassifier.ts)              *)
(*   - useGestureRecognizer  (hooks/useGestureRecognizer.ts)               *)
(* Times of the pattern buffer are milliseconds.  Engine times are tenths  *)
(* of a second and engine lengths are 1/200 of a world unit, so that the   *)
(* products the code computes stay integers.                               *)
(***************************************************************************)
EXTENDS Integers, Sequences, FiniteSets, TLC

NULL == "null"
NoBounds == <<>>

(***************************************************************************)
(* types/gestures.ts                                                       *)
(***************************************************************************)
GestureType == {"OPEN_PALM", "POINT", "VICTORY", "THREE_COUNT", "FIST", "UNKNOWN"}

(***************************************************************************)
(* utils/constants.ts                                                      *)
(***************************************************************************)
RAPID_PULSE_WINDOW_MS == 1500
RAPID_PULSE_MIN_CHANGES == 3

(***************************************************************************)
(* Bounds of the pattern-buffer model.                                     *)
(***************************************************************************)
MaxGestures == 5
MaxClock == 3200
\* gesture categories fed to the buffer, and the gaps between two gestures
InputTypes == {"OPEN_PALM", "FIST", "POINT"}
Gaps == {0, 700, 800}

(***************************************************************************)
(* three/ParticleSystem.ts: durations in tenths of a second.               *)
(***************************************************************************)
EXPLOSION_DURATION == 5
DISPERSION_DURATION == 3
PARTICLE_IDLE_RADIUS == 80

(***************************************************************************)
(* Bounds and inputs of the engine model.                                  *)
(***************************************************************************)
MaxUpdates == 2
MaxChanges == 2
MaxSame == 2
\* deltaTime of one update call, in tenths of a second
DeltaTimes == {0, 2, 5}

VARIABLES
  buffer,        \* RapidPulseBuffer.buffer: sequence of StateChangeEvent
  lastGesture,   \* RapidPulseBuffer.lastGesture
  clock,         \* Date.now() of the latest gesture
  hist,          \* gestures added since construction or reset(): <<type, timestamp>>
  pulseResult,   \* "true"/"false" returned by detectRapidPulse when it was the last call
  recorded,      \* the last addGesture call pushed an event
  fired,         \* number of detectRapidPulse calls that returned true since reset()
  lastCall       \* the last method called on the buffer

VARIABLES
  isIdle, isExploding, isDispersing, isOrbiting,   \* ParticleSystem mode flags
  explosionTime, dispersionTime, orbitTime,        \* ParticleSystem timers
  orbitBounds,   \* NoBounds (null), or <<centre>> of the Box3 handed to orbitAroundBounds
  particle,      \* one Particle of ParticleSystem.particles
  updates,       \* number of update calls made, counted up to MaxUpdates
  regime,        \* the regime the last update ran; "none" when the last call was not update
  clamped,       \* the last update pulled the particle back onto the idle sphere
  velocityFrom,  \* the method that assigned the particle's present velocity
  displacedBy,   \* whose velocity moved the particle in the last update
  lastApi,       \* the last method called other than update
  elapsed,       \* sum of deltaTime of the update calls since lastApi, counted up to
                 \* EXPLOSION_DURATION
  elapsedBefore, \* elapsed, as it was when the last update began
  calledFrom     \* when the last call other than update was explode(): what
                 \* update would have run before it; when it was disperse():
                 \* isDispersing before it

VARIABLES
  isReady,         \* useParticleSystem state isReady
  targetText,      \* the targetText prop
  prevTargetText,  \* prevTargetTextRef.current
  effectPending,   \* the target text effect is scheduled to run
  textMesh,        \* textMeshRef.current holds a text with a bounding box
  timers,          \* pending setTimeout callbacks, named by the value of handled
                   \* when they were scheduled
  changes,         \* number of target text changes emitted
  handled,         \* number of target text changes the effect has processed
  issuedBy         \* who made the last engine call: "effect", "timer", or
                   \* "staleTimer" (a timer of a text handled before the latest)

VARIABLES
  landmarks,       \* the landmark set last handed to classify / to the recogniser
  gesture,         \* the GestureState last returned by classify (type, confidence)
  firstLandmarks,  \* the landmark set of an earlier classify call
  firstGesture,    \* what that earlier call returned
  otherCalls       \* classify was called on another landmark set after that call

VARIABLES
  currentGesture,  \* useGestureRecognizer state currentGesture
  recText,         \* useGestureRecognizer state targetText
  ticks,           \* number of landmark updates the recogniser has processed
  tickKind,        \* how the last tick ended: "noHand", "lowConfidence", "passed"
  isRapidPulse,    \* detectRapidPulse() of the last tick that passed the gate
  fedBefore,       \* Len(hist) when the last tick began
  sameTicks        \* ticks since the target text last changed that resolved to
                   \* the same text

VARIABLES
  particleCount,   \* this.particles.length of the engine setTarget runs on
  targetCount,     \* points.length
  shuffledIndices, \* the index array of setTarget, indexed from 0
  loopIndex,       \* the loop variable i of the loop setTarget is in
  asgPhase,        \* where setTarget is: "new" (not called), "shuffle", "assign", "done"
  targets          \* per particle index: the anchor and layer it was given, its
                   \* target, and how many times a target was set

VARIABLES
  orbParticle,     \* a Particle in three dimensions: current (relative to the
                   \* centre of the orbit bounds), velocity, orbitAxis, speed
  orbTangent,      \* the tangent the last orbit call computed: the radialDir it
                   \* started from, the axis it was taken from, the vector
  orbCall,         \* the last orbit call: "none", "orbitAroundBounds", "updateOrbiting"
  orbCalls         \* number of orbit calls made

VARIABLES
  mounted,          \* the flag `mounted` of the useMediaPipeHands effect
  initStep,         \* the await initializeTracking is at: "getUserMedia", "metadata",
                    \* "initialize", "start"; "done" when it has returned, "failed"
                    \* when its catch block has reported an error
  mediaStream,      \* the variable mediaStream of the effect is set
  streamTracks,     \* tracks of the stream getUserMedia gave: "none", "live", "stopped"
  videoRefCurrent,  \* videoRef.current is set
  handTrackerRef,   \* handTrackerRef.current is set
  hands,            \* HandTracker.hands: "none" (null, never created), "open",
                    \* "closed" (closed and null)
  camera,           \* HandTracker.camera is set
  cameraState,      \* the Camera object: "none" (not created), "idle", "starting",
                    \* "running", "stopped", "failed"
  isTracking,       \* useMediaPipeHands state isTracking
  isInitializedRef, \* isInitializedRef.current
  trackingError,    \* useMediaPipeHands state error: "null" or what was reported
  handLandmarks,    \* useMediaPipeHands state landmarks: "null", or the hand they are of
  frames,           \* number of frames the camera has delivered
  sent              \* number of frames handed to hands.send

bufVars == <<buffer, lastGesture, clock, hist, pulseResult, recorded, fired, lastCall>>
flagVars == <<isIdle, isExploding, isDispersing, isOrbiting>>
engVars == <<isIdle, isExploding, isDispersing, isOrbiting,
             explosionTime, dispersionTime, orbitTime, orbitBounds, particle,
             updates, regime, clamped, velocityFrom, displacedBy,
             lastApi, elapsed, elapsedBefore, calledFrom>>
hookVars == <<isReady, targetText, prevTargetText, effectPending, textMesh, timers,
              changes, handled, issuedBy>>
clsVars == <<landmarks, gesture, firstLandmarks, firstGesture, otherCalls>>
recStateVars == <<currentGesture, recText, ticks, tickKind, isRapidPulse, fedBefore>>
recVars == <<recStateVars, sameTicks>>
asgVars == <<particleCount, targetCount, shuffledIndices, loopIndex, asgPhase, targets>>
orbVars == <<orbParticle, orbTangent, orbCall, orbCalls>>
trkVars == <<mounted, initStep, mediaStream, streamTracks, videoRefCurrent,
             handTrackerRef, hands, camera, cameraState, isTracking,
             isInitializedRef, trackingError, handLandmarks, frames, sent>>
moreVars == <<asgVars, orbVars, trkVars>>
vars == <<bufVars, engVars, hookVars, clsVars, recVars, moreVars>>

(***************************************************************************)
(* RapidPulseBuffer, as pure functions of its fields.                      *)
(***************************************************************************)
\* variant: the two categories are stored the other way round
StateChangeEvent_Swapped(from, to, ts) ==
  [fromType |-> to, toType |-> from, timestamp |-> ts]

StateChangeEvent(from, to, ts) == [fromType |-> from, toType |-> to, timestamp |-> ts]

\* variant: the filter is skipped
cleanOldEvents_Keep(buf, currentTimestamp) == buf

cleanOldEvents(buf, currentTimestamp) ==
  LET cutoffTime == currentTimestamp - RAPID_PULSE_WINDOW_MS
  IN  SelectSeq(buf, LAMBDA e : e.timestamp >= cutoffTime)

\* variant: every gesture is recorded as a transition
changed_Always(last, currentType) == TRUE

\* does addGesture record a transition?
changed(last, currentType) == last # NULL /\ last # currentType

\* the buffer after addGesture(gesture)
addGestureBuffer(buf, last, currentType, ts) ==
  IF changed(last, currentType)
    THEN cleanOldEvents(Append(buf, StateChangeEvent(last, currentType, ts)), ts)
    ELSE buf

\* variant: every category is relevant
isRelevant_Any(t) == TRUE

\* isRelevantFrom / isRelevantTo of detectRapidPulse
isRelevant(t) == t = "OPEN_PALM" \/ t = "FIST"

\* the loop of detectRapidPulse: <<alternationCount, lastRelevantType>> after
\* the first n events
RECURSIVE alternation(_, _)
alternation(buf, n) ==
  IF n = 0 THEN <<0, NULL>>
  ELSE LET prev  == alternation(buf, n - 1)
           event == buf[n]
       IN  IF /\ isRelevant(event.fromType) /\ isRelevant(event.toType)
              /\ (prev[2] = NULL \/ prev[2] # event.toType)
             THEN <<prev[1] + 1, event.toType>>
             ELSE prev

alternationCount(buf) == alternation(buf, Len(buf))[1]

\* the return value of detectRapidPulse
pulseDetected(buf) ==
  IF Len(buf) < RAPID_PULSE_MIN_CHANGES THEN FALSE
  ELSE alternationCount(buf) >= RAPID_PULSE_MIN_CHANGES

\* variant: reset() clears lastGesture and leaves the buffer
resetFields_KeepBuffer(buf, last) == [buffer |-> buf, lastGesture |-> NULL]

\* variant: reset() changes nothing
resetFields_Noop(buf, last) == [buffer |-> buf, lastGesture |-> last]

\* the fields after reset()
resetFields(buf, last) == [buffer |-> <<>>, lastGesture |-> NULL]

(***************************************************************************)
(* Operations of RapidPulseBuffer.                                         *)
(***************************************************************************)
BufInit ==
  /\ buffer = <<>>
  /\ lastGesture = NULL
  /\ clock = 0
  /\ hist = <<>>
  /\ pulseResult = "none"
  /\ recorded = FALSE
  /\ fired = 0
  /\ lastCall = "new"

addGesture(type, gap) ==
  /\ Len(hist) < MaxGestures
  /\ clock + gap <= MaxClock
  /\ clock' = clock + gap
  /\ buffer' = addGestureBuffer(buffer, lastGesture, type, clock')
  /\ recorded' = changed(lastGesture, type)
  /\ lastGesture' = type
  /\ hist' = Append(hist, <<type, clock'>>)
  /\ pulseResult' = "none"
  /\ lastCall' = "addGesture"
  /\ UNCHANGED fired
  /\ UNCHANGED <<engVars, hookVars, clsVars, recVars, moreVars>>

detectRapidPulse ==
  /\ pulseResult' = (IF pulseDetected(buffer) THEN "true" ELSE "false")
  /\ IF pulseDetected(buffer)
       THEN /\ buffer' = resetFields(buffer, lastGesture).buffer
            /\ lastGesture' = resetFields(buffer, lastGesture).lastGesture
            /\ fired' = fired + 1
       ELSE UNCHANGED <<buffer, lastGesture, fired>>
  /\ lastCall' = "detectRapidPulse"
  /\ UNCHANGED <<clock, hist, recorded>>
  /\ UNCHANGED <<engVars, hookVars, clsVars, recVars, moreVars>>

reset ==
  /\ buffer' = resetFields(buffer, lastGesture).buffer
  /\ lastGesture' = resetFields(buffer, lastGesture).lastGesture
  /\ hist' = <<>>
  /\ fired' = 0
  /\ pulseResult' = "none"
  /\ recorded' = FALSE
  /\ lastCall' = "reset"
  /\ UNCHANGED clock
  /\ UNCHANGED <<engVars, hookVars, clsVars, recVars, moreVars>>

(***************************************************************************)
(* ParticleSystem.  The model follows one particle (the engine treats      *)
(* every particle alike and particles do not interact) in the executions   *)
(* in which the particle and every random direction lie on the x axis:     *)
(* vectors are their x coordinate, normalize() is the sign, and the cross  *)
(* product of two vectors on the axis is the zero vector.                  *)
(*   lengths:    1/200 of a world unit                                     *)
(*   velocities: 1/20 of a world unit                                      *)
(*   speed:      the multiplier in halves (1, 2, 3 stand for 0.5, 1, 1.5)  *)
(*   times:      tenths of a second                                        *)
(***************************************************************************)
sgn(x) == IF x > 0 THEN 1 ELSE IF x < 0 THEN -1 ELSE 0
abs(x) == IF x < 0 THEN -x ELSE x
Max(a, b) == IF a >= b THEN a ELSE b
Min(a, b) == IF a <= b THEN a ELSE b
\* x / d rounded toward zero
quot(x, d) == sgn(x) * (abs(x) \div d)
\* x / d rounded to the nearest integer
round(x, d) == sgn(x) * ((2 * abs(x) + d) \div (2 * d))

IdleRadius == PARTICLE_IDLE_RADIUS * 200

\* initializeParticles: radius = Math.random() * PARTICLE_IDLE_RADIUS
InitPositions == {0, IdleRadius - 10}
Speeds == {1, 3}
Directions == {-1, 1}
\* Math.sin(...) in updateIdleState and updateOrbiting
Sines == {-1, 1}
\* (Math.random() - 0.5) in the jitter vectors
Jitters == {-1, 1}
\* anchor points handed to setTarget, on the axis
Anchors == {30 * 200}
\* centres of the bounds handed to orbitAroundBounds
Centres == {0}
\* radiusVariation of orbitAroundBounds, world units
RadiusVariations == {6}
\* sign of the normalised randomOffset of orbitAroundBounds
OffsetSides == {1}
\* layer of the particle in setTarget, and sign of its jitter
Layers == {0, 1}
LayerJitters == {1}

Particle(x, speed, offset) ==
  [current |-> x, target |-> x, velocity |-> 0,
   idleOffset |-> offset, speed |-> speed, orbitAxis |-> 1]

\* variant: update tests isDispersing before isExploding
dispatch_DispersingFirst(exploding, dispersing, orbiting, idle) ==
  IF dispersing THEN "dispersion"
  ELSE IF exploding THEN "explosion"
  ELSE IF orbiting THEN "orbit"
  ELSE IF idle THEN "idle"
  ELSE "morph"

\* the regime update dispatches to
dispatch(exploding, dispersing, orbiting, idle) ==
  IF exploding THEN "explosion"
  ELSE IF dispersing THEN "dispersion"
  ELSE IF orbiting THEN "orbit"
  ELSE IF idle THEN "idle"
  ELSE "morph"

Mode == dispatch(isExploding, isDispersing, isOrbiting, isIdle)

\* variant: the decay factor is not clamped at 0
decayNumer_Unclamped(time, duration) == duration - time

\* Math.max(0, 1 - time / duration), times duration
decayNumer(time, duration) == Max(0, duration - time)

\* variant: the idle update does not clamp
keepWithinRadius_Off(x) == x

\* updateIdleState: keep particles within radius
keepWithinRadius(x) ==
  IF abs(x) > IdleRadius THEN sgn(x) * IdleRadius ELSE x

\* variant: the drift is computed in place, in idleOffset itself
idleStep_NoClone(p, sine) ==
  LET drift == p.idleOffset * sine * 5 * p.speed
  IN  [p EXCEPT !.current = keepWithinRadius(p.current + drift),
                !.idleOffset = drift]

\* updateIdleState, one particle: drift along idleOffset, then clamp
idleStep(p, sine) ==
  LET drift == p.idleOffset * sine * 5 * p.speed
  IN  [p EXCEPT !.current = keepWithinRadius(p.current + drift)]

\* variant: the decay factor is taken from the time before deltaTime is added
explosionStep_DecayBefore(p, time, deltaTime) ==
  LET velocityWithDecay ==
        quot(p.velocity * decayNumer(time - deltaTime, EXPLOSION_DURATION) * deltaTime,
             EXPLOSION_DURATION)
  IN  [p EXCEPT !.current = p.current + velocityWithDecay]

\* velocity * decayFactor * deltaTime of updateExplosion
explosionStep(p, time, deltaTime) ==
  LET velocityWithDecay ==
        quot(p.velocity * decayNumer(time, EXPLOSION_DURATION) * deltaTime,
             EXPLOSION_DURATION)
  IN  [p EXCEPT !.current = p.current + velocityWithDecay]

\* velocity * decayFactor * deltaTime * 60 of updateDispersion
dispersionStep(p, time, deltaTime) ==
  LET velocityWithDecay ==
        quot(p.velocity * decayNumer(time, DISPERSION_DURATION) * deltaTime * 60,
             DISPERSION_DURATION)
  IN  [p EXCEPT !.current = p.current + velocityWithDecay]

\* (distance > targetDistance ? -0.5 : 0.5) * particle.speed
radialSpeed(p, distance) == (IF distance > 20 * 200 THEN -5 ELSE 5) * p.speed

\* updateOrbiting, one particle
orbitStep(p, centre, deltaTime, sine, jit) ==
  LET toCentre     == centre - p.current
      distance     == abs(toCentre)
      radialDir    == p.current - centre
      \* crossVectors(radialDir, orbitAxis) and the altAxis fallback are both
      \* zero on the axis
      tangent      == 0
      wave         == sine * 6
      orbitalSpeed == 20 * p.speed
      velocity     == tangent * orbitalSpeed
                        + sgn(toCentre) * (radialSpeed(p, distance) + wave)
  IN  [p EXCEPT !.velocity = velocity,
                !.current  = p.current + velocity * deltaTime * 60 + jit * 15]

\* variant: no easing step above the threshold
morphStep_Stuck(p, jit) ==
  IF abs(p.target - p.current) > 20
    THEN p
    ELSE [p EXCEPT !.current = p.current + jit * 4 * p.speed]

\* interpolateToTarget, one particle: above the distance 0.1 move by
\* direction * PARTICLE_MORPH_SPEED * speed, else add the jitter
\* (Math.random() - 0.5) * PARTICLE_JITTER_AMOUNT * speed
morphStep(p, jit) ==
  LET direction == p.target - p.current
      distance  == abs(direction)
  IN  IF distance > 20
        THEN [p EXCEPT !.current = p.current + round(direction * 4 * p.speed, 100)]
        ELSE [p EXCEPT !.current = p.current + jit * 4 * p.speed]

(***************************************************************************)
(* Operations of ParticleSystem.                                           *)
(***************************************************************************)
EngineNew(p) ==
  /\ isIdle = TRUE
  /\ isExploding = FALSE
  /\ isDispersing = FALSE
  /\ isOrbiting = FALSE
  /\ explosionTime = 0
  /\ dispersionTime = 0
  /\ orbitTime = 0
  /\ orbitBounds = NoBounds
  /\ particle = p
  /\ updates = 0
  /\ regime = "none"
  /\ clamped = FALSE
  /\ velocityFrom = "new"
  /\ displacedBy = "none"
  /\ lastApi = "new"
  /\ elapsed = 0
  /\ elapsedBefore = 0
  /\ calledFrom = [mode |-> "other", dispersing |-> FALSE]

EngInit ==
  \E x \in InitPositions, s \in Speeds : EngineNew(Particle(x, s, 1))

\* bookkeeping of a call other than update
called(name) ==
  /\ lastApi' = name
  /\ regime' = "none"
  /\ clamped' = FALSE
  /\ displacedBy' = "none"
  /\ elapsed' = 0
  /\ elapsedBefore' = 0
  /\ calledFrom' =
       CASE name = "explode" ->
              [mode |-> IF Mode \in {"explosion", "idle", "morph"} THEN Mode ELSE "other",
               dispersing |-> FALSE]
         [] name = "disperse" -> [mode |-> "other", dispersing |-> isDispersing]
         [] OTHER -> [mode |-> "other", dispersing |-> FALSE]
  /\ UNCHANGED updates

\* setTarget(points) with points non-empty: the particle is assigned the
\* anchor `point` in layer `layer`, with jitter (Math.random() - 0.5) * layer * 0.05
setTarget(point, layer, jit) ==
  /\ isIdle' = FALSE
  /\ particle' = [particle EXCEPT !.target = point + jit * layer * 5]
  /\ called("setTarget")
  /\ UNCHANGED <<isExploding, isDispersing, isOrbiting, explosionTime,
                 dispersionTime, orbitTime, orbitBounds, velocityFrom>>

\* setTarget([]): isIdle is cleared, then points[NaN].x raises a TypeError
setTargetEmpty ==
  /\ isIdle' = FALSE
  /\ called("setTargetEmpty")
  /\ UNCHANGED <<isExploding, isDispersing, isOrbiting, explosionTime,
                 dispersionTime, orbitTime, orbitBounds, particle, velocityFrom>>

setIdleState ==
  /\ isIdle' = TRUE
  /\ isExploding' = FALSE
  /\ isDispersing' = FALSE
  /\ isOrbiting' = FALSE
  /\ orbitBounds' = NoBounds
  /\ particle' = [particle EXCEPT !.target = particle.current]
  /\ called("setIdleState")
  /\ UNCHANGED <<explosionTime, dispersionTime, orbitTime, velocityFrom>>

\* variant: disperse() leaves dispersionTime as it is
disperse_KeepTimer(dir) ==
  /\ isDispersing' = TRUE
  /\ isIdle' = FALSE
  /\ isExploding' = FALSE
  /\ particle' = [particle EXCEPT !.velocity = dir * 30 * particle.speed]
  /\ velocityFrom' = "disperse"
  /\ called("disperse")
  /\ UNCHANGED <<isOrbiting, explosionTime, dispersionTime, orbitTime, orbitBounds>>

disperse(dir) ==
  /\ isDispersing' = TRUE
  /\ isIdle' = FALSE
  /\ isExploding' = FALSE
  /\ dispersionTime' = 0
  /\ particle' = [particle EXCEPT !.velocity = dir * 30 * particle.speed]
  /\ velocityFrom' = "disperse"
  /\ called("disperse")
  /\ UNCHANGED <<isOrbiting, explosionTime, orbitTime, orbitBounds>>

explode ==
  /\ isExploding' = TRUE
  /\ isIdle' = FALSE
  /\ explosionTime' = 0
  /\ particle' = [particle EXCEPT
                    !.velocity = sgn(particle.current) * 50 * particle.speed]
  /\ velocityFrom' = "explode"
  /\ called("explode")
  /\ UNCHANGED <<isDispersing, isOrbiting, dispersionTime, orbitTime, orbitBounds>>

\* orbitAroundBounds(bounds): the particle is placed at centre + side * radius
\* and given the velocity side2 * 0.6 * speed (tangent is zero on the axis, so
\* the normalised randomOffset decides the direction)
orbitAroundBounds(centre, side, variation, side2) ==
  /\ isOrbiting' = TRUE
  /\ isIdle' = FALSE
  /\ isExploding' = FALSE
  /\ isDispersing' = FALSE
  /\ orbitBounds' = <<centre>>
  /\ orbitTime' = 0
  /\ LET x == centre + side * (20 + variation) * 200
     IN  particle' = [particle EXCEPT !.current = x, !.target = x,
                                      !.velocity = side2 * 6 * particle.speed]
  /\ velocityFrom' = "orbitAroundBounds"
  /\ called("orbitAroundBounds")
  /\ UNCHANGED <<explosionTime, dispersionTime>>

\* bookkeeping of update
updated(name, deltaTime, mover) ==
  /\ regime' = name
  /\ updates' = Min(updates + 1, MaxUpdates)
  /\ elapsedBefore' = elapsed
  /\ elapsed' = Min(elapsed + deltaTime, EXPLOSION_DURATION)
  /\ displacedBy' = mover
  /\ UNCHANGED <<lastApi, calledFrom>>

updateExplosion(deltaTime) ==
  /\ explosionTime' = explosionTime + deltaTime
  /\ particle' = explosionStep(particle, explosionTime', deltaTime)
  /\ isExploding' = (explosionTime' < EXPLOSION_DURATION)
  /\ clamped' = FALSE
  /\ updated("explosion", deltaTime,
             IF particle'.current # particle.current THEN velocityFrom ELSE "none")
  /\ UNCHANGED <<isIdle, isDispersing, isOrbiting, dispersionTime, orbitTime,
                 orbitBounds, velocityFrom>>

updateDispersion(deltaTime) ==
  /\ dispersionTime' = dispersionTime + deltaTime
  /\ particle' = dispersionStep(particle, dispersionTime', deltaTime)
  /\ IF dispersionTime' >= DISPERSION_DURATION
       THEN isDispersing' = FALSE /\ isIdle' = TRUE
       ELSE UNCHANGED <<isDispersing, isIdle>>
  /\ clamped' = FALSE
  /\ updated("dispersion", deltaTime,
             IF particle'.current # particle.current THEN velocityFrom ELSE "none")
  /\ UNCHANGED <<isExploding, isOrbiting, explosionTime, orbitTime,
                 orbitBounds, velocityFrom>>

updateOrbiting(deltaTime) ==
  /\ IF orbitBounds = NoBounds
       THEN UNCHANGED <<orbitTime, particle, velocityFrom>>
       ELSE /\ orbitTime' = orbitTime + deltaTime
            /\ \E sine \in Sines, jit \in Jitters :
                 particle' = orbitStep(particle, orbitBounds[1], deltaTime, sine, jit)
            /\ velocityFrom' = "updateOrbiting"
  /\ clamped' = FALSE
  /\ updated("orbit", deltaTime,
             IF orbitBounds # NoBounds /\ particle'.velocity * deltaTime # 0
               THEN "updateOrbiting" ELSE "none")
  /\ UNCHANGED <<flagVars, explosionTime, dispersionTime, orbitBounds>>

updateIdleState(deltaTime) ==
  /\ \E sine \in Sines :
       /\ particle' = idleStep(particle, sine)
       /\ clamped' = (abs(particle.current + particle.idleOffset * sine * 5 * particle.speed)
                        > IdleRadius)
  /\ updated("idle", deltaTime, "none")
  /\ UNCHANGED <<flagVars, explosionTime, dispersionTime, orbitTime,
                 orbitBounds, velocityFrom>>

interpolateToTarget(deltaTime) ==
  /\ \E jit \in Jitters : particle' = morphStep(particle, jit)
  /\ clamped' = FALSE
  /\ updated("morph", deltaTime, "none")
  /\ UNCHANGED <<flagVars, explosionTime, dispersionTime, orbitTime,
                 orbitBounds, velocityFrom>>

update(deltaTime) ==
  /\ updates < MaxUpdates
  /\ CASE Mode = "explosion"  -> updateExplosion(deltaTime)
       [] Mode = "dispersion" -> updateDispersion(deltaTime)
       [] Mode = "orbit"      -> updateOrbiting(deltaTime)
       [] Mode = "idle"       -> updateIdleState(deltaTime)
       [] Mode = "morph"      -> interpolateToTarget(deltaTime)

(***************************************************************************)
(* useParticleSystem: the effect that handles target text changes, the     *)
(* 500 ms timer it starts for the combo text, and the render loop of       *)
(* useThreeScene that calls ParticleSystem.update.                         *)
(***************************************************************************)
TEXTS_TO_GENERATE ==
  {"SoC", "Curiosity", "Ingenuity", "Deterministic", "SP School Of Computing"}
ComboText == "SP School Of Computing"
\* values of the targetText prop
TargetTexts == {NULL, "SoC", ComboText, "Unlisted"}

HookNew ==
  /\ isReady = FALSE
  /\ targetText = NULL
  /\ prevTargetText = NULL
  /\ effectPending = FALSE
  /\ textMesh = FALSE
  /\ timers = {}
  /\ changes = 0
  /\ handled = 0
  /\ issuedBy = "none"

\* initializeGenerator has loaded the font and pre-generated the texts
setIsReady ==
  /\ ~isReady
  /\ isReady' = TRUE
  /\ effectPending' = TRUE
  /\ UNCHANGED <<targetText, prevTargetText, textMesh, timers, changes, handled,
                 issuedBy>>
  /\ UNCHANGED engVars

\* the gesture recogniser emits another target text
setTargetText(text) ==
  /\ changes < MaxChanges
  /\ text # targetText
  /\ targetText' = text
  /\ changes' = changes + 1
  /\ effectPending' = TRUE
  /\ UNCHANGED <<isReady, prevTargetText, textMesh, timers, handled, issuedBy>>
  /\ UNCHANGED engVars

\* variant: every text counts as pre-generated
preGenerated_All(text) == TRUE

\* TEXTS_TO_GENERATE.includes(targetText)
preGenerated(text) == text \in TEXTS_TO_GENERATE

\* variant: the effect handles the text on every run
unchangedText_Never(text, prev) == FALSE

\* targetText === prevTargetTextRef.current
unchangedText(text, prev) == text = prev

\* the effect on [targetText, isReady, particleSystem, sceneManager]
targetTextEffect ==
  /\ effectPending
  /\ effectPending' = FALSE
  /\ UNCHANGED <<isReady, targetText, changes>>
  /\ IF ~isReady \/ unchangedText(targetText, prevTargetText)
       THEN /\ UNCHANGED <<prevTargetText, textMesh, timers, handled, issuedBy>>
            /\ UNCHANGED engVars
       ELSE /\ prevTargetText' = targetText
            /\ handled' = handled + 1
            /\ IF targetText = NULL
                 THEN /\ \E dir \in Directions : disperse(dir)
                      /\ issuedBy' = "effect"
                      /\ UNCHANGED <<textMesh, timers>>
               ELSE IF ~preGenerated(targetText)
                 THEN /\ UNCHANGED <<textMesh, timers, issuedBy>>
                      /\ UNCHANGED engVars
               ELSE IF targetText = ComboText
                 THEN /\ textMesh' = TRUE
                      /\ explode
                      /\ timers' = timers \cup {handled'}
                      /\ issuedBy' = "effect"
               ELSE /\ textMesh' = TRUE
                    /\ \E side \in Directions, variation \in RadiusVariations,
                          side2 \in OffsetSides :
                         orbitAroundBounds(0, side, variation, side2)
                    /\ issuedBy' = "effect"
                    /\ UNCHANGED timers

\* a tick of the recogniser that resolves to the text already emitted:
\* setTargetText keeps the state; the effect runs again if another of its
\* dependencies changed in the same render
sameTargetText(rerun) ==
  /\ sameTicks < MaxSame
  /\ sameTicks' = sameTicks + 1
  /\ effectPending' = (effectPending \/ rerun)
  /\ UNCHANGED <<isReady, targetText, prevTargetText, textMesh, timers, changes,
                 handled, issuedBy>>
  /\ UNCHANGED engVars

\* the setTimeout callback scheduled while text number `id` was handled
timerCallback(id) ==
  /\ id \in timers
  /\ timers' = timers \ {id}
  /\ IF textMesh
       THEN /\ \E side \in Directions, variation \in RadiusVariations,
                  side2 \in OffsetSides :
                 orbitAroundBounds(0, side, variation, side2)
            /\ issuedBy' = (IF id = handled THEN "timer" ELSE "staleTimer")
       ELSE /\ UNCHANGED issuedBy
            /\ UNCHANGED engVars
  /\ UNCHANGED <<isReady, targetText, prevTargetText, effectPending, textMesh,
                 changes, handled>>

\* one frame of the render loop
animate(deltaTime) ==
  /\ update(deltaTime)
  /\ UNCHANGED hookVars

(***************************************************************************)
(* GestureClassifier.  A landmark set is null (isNull) or an array of      *)
(* points [x, y]; landmarks[i] of the code is at(landmarks, i).            *)
(* Coordinates are hundredths of the normalised image size, confidences    *)
(* are hundredths.                                                         *)
(***************************************************************************)
WRIST == 0
THUMB_MCP == 2
THUMB_TIP == 4
INDEX_PIP == 6
INDEX_TIP == 8
MIDDLE_PIP == 10
MIDDLE_TIP == 12
RING_PIP == 14
RING_TIP == 16
PINKY_PIP == 18
PINKY_TIP == 20

at(lm, i) == lm.points[i + 1]

NullLandmarks == [isNull |-> TRUE, points |-> <<>>]
Array(points) == [isNull |-> FALSE, points |-> points]

\* no GestureState (null)
NoGesture == [type |-> "none", confidence |-> 0]
\* a TypeError raised while reading a property of an undefined landmark
TypeError == [type |-> "TypeError", confidence |-> 0]

GestureState(type, confidence) == [type |-> type, confidence |-> confidence]

\* tip.y < pip.y
isFingerExtended(lm, tipIndex, pipIndex) == at(lm, tipIndex).y < at(lm, pipIndex).y

\* variant: the thumb is tested like the other fingers (tip above the MCP joint)
isThumbExtended_Vertical(lm) == at(lm, THUMB_TIP).y < at(lm, THUMB_MCP).y

\* tipDistance > mcpDistance * 1.3
isThumbExtended(lm) ==
  LET tipDistance == abs(at(lm, THUMB_TIP).x - at(lm, WRIST).x)
      mcpDistance == abs(at(lm, THUMB_MCP).x - at(lm, WRIST).x)
  IN  10 * tipDistance > 13 * mcpDistance

indexExtended(lm)  == isFingerExtended(lm, INDEX_TIP, INDEX_PIP)
middleExtended(lm) == isFingerExtended(lm, MIDDLE_TIP, MIDDLE_PIP)
ringExtended(lm)   == isFingerExtended(lm, RING_TIP, RING_PIP)
pinkyExtended(lm)  == isFingerExtended(lm, PINKY_TIP, PINKY_PIP)

\* variant: the thumb is not counted
countExtendedFingers_NoThumb(lm) ==
  (IF indexExtended(lm) THEN 1 ELSE 0) + (IF middleExtended(lm) THEN 1 ELSE 0)
    + (IF ringExtended(lm) THEN 1 ELSE 0) + (IF pinkyExtended(lm) THEN 1 ELSE 0)

countExtendedFingers(lm) ==
  (IF indexExtended(lm) THEN 1 ELSE 0) + (IF middleExtended(lm) THEN 1 ELSE 0)
    + (IF ringExtended(lm) THEN 1 ELSE 0) + (IF pinkyExtended(lm) THEN 1 ELSE 0)
    + (IF isThumbExtended(lm) THEN 1 ELSE 0)

isOnlyIndexExtended(lm) ==
  indexExtended(lm) /\ ~middleExtended(lm) /\ ~ringExtended(lm) /\ ~pinkyExtended(lm)

isIndexAndMiddleExtended(lm) ==
  indexExtended(lm) /\ middleExtended(lm) /\ ~ringExtended(lm) /\ ~pinkyExtended(lm)

isIndexMiddleRingExtended(lm) ==
  indexExtended(lm) /\ middleExtended(lm) /\ ringExtended(lm) /\ ~pinkyExtended(lm)

\* variant: only null is rejected
malformed_NullOnly(lm) == lm.isNull

\* !landmarks || landmarks.length !== 21
malformed(lm) == lm.isNull \/ Len(lm.points) # 21

\* the landmarks classify reads
ReadIndices ==
  {WRIST, THUMB_MCP, THUMB_TIP, INDEX_PIP, INDEX_TIP, MIDDLE_PIP, MIDDLE_TIP,
   RING_PIP, RING_TIP, PINKY_PIP, PINKY_TIP}

\* landmarks[i] is undefined for one of them
undefinedRead(lm) == \E i \in ReadIndices : i >= Len(lm.points)

\* variant: a classifier that knows POINT only, with a confidence that
\* depends on the height of the thumb tip
classify_Skewed(lm) ==
  IF malformed(lm) THEN GestureState("UNKNOWN", 0)
  ELSE IF countExtendedFingers(lm) = 1 /\ isOnlyIndexExtended(lm)
    THEN GestureState("POINT",
                      IF at(lm, THUMB_TIP).y < at(lm, THUMB_MCP).y THEN 95 ELSE 90)
  ELSE GestureState("UNKNOWN", 50)

\* classify(landmarks), without the timestamp
classify(lm) ==
  IF malformed(lm) THEN GestureState("UNKNOWN", 0)
  ELSE IF undefinedRead(lm) THEN TypeError
  ELSE LET extendedFingers == countExtendedFingers(lm)
       IN  IF extendedFingers = 5 THEN GestureState("OPEN_PALM", 100)
           ELSE IF extendedFingers = 1 /\ isOnlyIndexExtended(lm)
             THEN GestureState("POINT", 90)
           ELSE IF extendedFingers = 2 /\ isIndexAndMiddleExtended(lm)
             THEN GestureState("VICTORY", 95)
           ELSE IF extendedFingers = 3 /\ isIndexMiddleRingExtended(lm)
             THEN GestureState("THREE_COUNT", 90)
           ELSE IF extendedFingers <= 1 /\ ~isOnlyIndexExtended(lm)
             THEN GestureState("FIST", 95)
           ELSE GestureState("UNKNOWN", 50)

\* <<tip.y, pip.y>> of a finger: extended, level, folded
FingerJoints == {<<1, 2>>, <<2, 2>>, <<2, 1>>}
\* <<tip.x, mcp.x, wrist.x, tip.y, mcp.y>> of the thumb
ThumbJoints ==
  {<<14, 10, 0, 1, 2>>, <<13, 10, 0, 1, 2>>, <<10, 14, 24, 2, 1>>, <<10, 10, 10, 2, 2>>}

Origin == [x |-> 0, y |-> 0]

\* a 21-landmark set with the given joints; landmarks classify never reads
\* are at the origin
Hand(index, middle, ring, pinky, thumb) ==
  Array([i \in 1..21 |->
     CASE i = WRIST + 1      -> [x |-> thumb[3], y |-> 0]
       [] i = THUMB_MCP + 1  -> [x |-> thumb[2], y |-> thumb[5]]
       [] i = THUMB_TIP + 1  -> [x |-> thumb[1], y |-> thumb[4]]
       [] i = INDEX_PIP + 1  -> [x |-> 0, y |-> index[2]]
       [] i = INDEX_TIP + 1  -> [x |-> 0, y |-> index[1]]
       [] i = MIDDLE_PIP + 1 -> [x |-> 0, y |-> middle[2]]
       [] i = MIDDLE_TIP + 1 -> [x |-> 0, y |-> middle[1]]
       [] i = RING_PIP + 1   -> [x |-> 0, y |-> ring[2]]
       [] i = RING_TIP + 1   -> [x |-> 0, y |-> ring[1]]
       [] i = PINKY_PIP + 1  -> [x |-> 0, y |-> pinky[2]]
       [] i = PINKY_TIP + 1  -> [x |-> 0, y |-> pinky[1]]
       [] OTHER              -> Origin])

\* every combination of extended and folded fingers, the index finger also
\* with its tip level with the PIP joint
Hands ==
  {Hand(i, m, r, p, t) : i \in FingerJoints, m \in {<<1, 2>>, <<2, 1>>},
                         r \in {<<1, 2>>, <<2, 1>>}, p \in {<<1, 2>>, <<2, 1>>},
                         t \in ThumbJoints}

\* null, and landmark arrays of a length other than 21
MalformedLandmarks ==
  {NullLandmarks} \cup {Array([i \in 1..n |-> Origin]) : n \in {0, 20, 22}}

LandmarkSets == Hands \cup MalformedLandmarks

ClsNew ==
  /\ landmarks = NullLandmarks
  /\ gesture = NoGesture
  /\ firstLandmarks = NullLandmarks
  /\ firstGesture = NoGesture
  /\ otherCalls = FALSE

\* one classifier.classify(lm) call; the first call is remembered for
\* comparison with later ones
classifyCall(lm) ==
  /\ landmarks' = lm
  /\ gesture' = classify(lm)
  /\ IF firstGesture = NoGesture
       THEN firstLandmarks' = lm /\ firstGesture' = gesture' /\ UNCHANGED otherCalls
       ELSE /\ UNCHANGED <<firstLandmarks, firstGesture>>
            /\ otherCalls' = (otherCalls \/ lm # firstLandmarks)
  /\ UNCHANGED <<bufVars, engVars, hookVars, recVars, moreVars>>

(***************************************************************************)
(* useGestureRecognizer: the effect that runs when the landmarks prop      *)
(* changes (one tick).                                                     *)
(***************************************************************************)
CONFIDENCE_THRESHOLD == 80

GESTURE_TEXT_MAP ==
  [t \in GestureType |->
     CASE t = "OPEN_PALM"   -> "SoC"
       [] t = "POINT"       -> "Curiosity"
       [] t = "VICTORY"     -> "Ingenuity"
       [] t = "THREE_COUNT" -> "Deterministic"
       [] t = "FIST"        -> NULL
       [] t = "UNKNOWN"     -> NULL]

MaxTicks == 5
\* milliseconds between two landmark updates
TickGaps == {400, 1600}

Extended == <<1, 2>>
Folded == <<2, 1>>
ThumbOut == <<14, 10, 0, 1, 2>>
ThumbIn == <<10, 10, 10, 2, 2>>
\* landmark sets handed to the recogniser
TickLandmarks ==
  {NullLandmarks, Array(<<>>), Array([i \in 1..20 |-> Origin]),
   Hand(Extended, Extended, Extended, Extended, ThumbOut),
   Hand(Folded, Folded, Folded, Folded, ThumbIn),
   Hand(Extended, Folded, Folded, Folded, ThumbIn),
   Hand(Extended, Extended, Folded, Folded, ThumbIn),
   Hand(Extended, Extended, Extended, Folded, ThumbIn),
   Hand(Extended, Extended, Extended, Extended, ThumbIn)}

RecNew ==
  /\ currentGesture = NoGesture
  /\ recText = NULL
  /\ ticks = 0
  /\ tickKind = "none"
  /\ isRapidPulse = FALSE
  /\ fedBefore = 0
  /\ sameTicks = 0

\* variant: FIST resolves to the text of OPEN_PALM
resolveText_FistShown(type, fired_) ==
  IF fired_ THEN ComboText
  ELSE IF type = "FIST" THEN "SoC" ELSE GESTURE_TEXT_MAP[type]

\* variant: the text is the name of the category
resolveText_Named(type, fired_) == IF fired_ THEN ComboText ELSE type

\* the text of a gesture that passed the gate
resolveText(type, fired_) ==
  IF fired_ THEN ComboText ELSE GESTURE_TEXT_MAP[type]

\* variant: the gate lets a confidence equal to the threshold or below pass
belowGate_Open(confidence) == confidence < 0

\* variant: the threshold is 0.5, exclusive
belowGate_Half(confidence) == confidence < 50

\* gesture.confidence <= CONFIDENCE_THRESHOLD
belowGate(confidence) == confidence <= CONFIDENCE_THRESHOLD

\* !landmarks || landmarks.length === 0
noHand(lm) == lm.isNull \/ Len(lm.points) = 0

\* variant: the target text is kept when the gesture is cleared
clearGesture_KeepText ==
  IF currentGesture # NoGesture
    THEN currentGesture' = NoGesture /\ UNCHANGED recText
    ELSE UNCHANGED <<currentGesture, recText>>

\* the branch "treat as no gesture" of the effect
clearGesture ==
  IF currentGesture # NoGesture
    THEN currentGesture' = NoGesture /\ recText' = NULL
    ELSE UNCHANGED <<currentGesture, recText>>

\* one run of the effect with the landmarks lm, `gap` ms after the previous one
tick(lm, gap) ==
  /\ ticks < MaxTicks
  /\ clock + gap <= MaxClock
  /\ ticks' = ticks + 1
  /\ clock' = clock + gap
  /\ landmarks' = lm
  /\ fedBefore' = Len(hist)
  /\ UNCHANGED <<firstLandmarks, firstGesture, otherCalls, sameTicks>>
  /\ IF noHand(lm)
       THEN /\ clearGesture
            /\ tickKind' = "noHand"
            /\ isRapidPulse' = FALSE
            /\ UNCHANGED <<gesture, buffer, lastGesture, hist, pulseResult, recorded,
                           fired, lastCall>>
     ELSE IF belowGate(classify(lm).confidence)
       THEN /\ gesture' = classify(lm)
            /\ clearGesture
            /\ tickKind' = "lowConfidence"
            /\ isRapidPulse' = FALSE
            /\ UNCHANGED <<buffer, lastGesture, hist, pulseResult, recorded,
                           fired, lastCall>>
     ELSE LET g     == classify(lm)
              added == addGestureBuffer(buffer, lastGesture, g.type, clock')
              pulse == pulseDetected(added)
          IN  /\ gesture' = g
              /\ recorded' = changed(lastGesture, g.type)
              /\ hist' = Append(hist, <<g.type, clock'>>)
              /\ IF pulse
                   THEN /\ buffer' = resetFields(added, g.type).buffer
                        /\ lastGesture' = resetFields(added, g.type).lastGesture
                        /\ fired' = fired + 1
                   ELSE /\ buffer' = added
                        /\ lastGesture' = g.type
                        /\ UNCHANGED fired
              /\ pulseResult' = (IF pulse THEN "true" ELSE "false")
              /\ lastCall' = "detectRapidPulse"
              /\ isRapidPulse' = pulse
              /\ currentGesture' = g
              /\ recText' = resolveText(g.type, pulse)
              /\ tickKind' = "passed"
  /\ UNCHANGED <<engVars, hookVars, moreVars>>

(***************************************************************************)
(* ParticleSystem.setTarget, loop by loop: the assignment of the particles *)
(* to the anchor points.  Coordinates in 1/200 world unit.                 *)
(***************************************************************************)
\* largest this.particles.length and points.length considered
MaxParticles == 3
MaxAnchors == 2

\* the anchor points handed to setTarget, indexed from 0
points(count) == [j \in 0..(count - 1) |-> <<(j + 1) * 200, 200, 0>>]

AsgNew ==
  /\ particleCount = 0
  /\ targetCount = 0
  /\ shuffledIndices = <<>>
  /\ loopIndex = 0
  /\ asgPhase = "new"
  /\ targets = <<>>

\* i % targetCount
targetIndexOf(index, count) == index % count

\* variant: Math.ceil(i / targetCount)
layerOf_Ceil(index, count) == (index + count - 1) \div count

\* Math.floor(i / targetCount)
layerOf(index, count) == index \div count

\* setTarget(points) up to the shuffle: isIdle is cleared and shuffledIndices
\* is filled with 0 .. particles.length - 1
setTargetBegin(n, m) ==
  /\ asgPhase = "new"
  /\ isIdle' = FALSE
  /\ particleCount' = n
  /\ targetCount' = m
  /\ shuffledIndices' = [k \in 0..(n - 1) |-> k]
  \* no particle has been reached yet
  /\ targets' = [k \in 0..(n - 1) |->
                  [anchor |-> -1, layer |-> -1, target |-> <<0, 0, 0>>, times |-> 0]]
  /\ loopIndex' = IF n > 1 THEN n - 1 ELSE 0
  /\ asgPhase' = IF n > 1 THEN "shuffle" ELSE "assign"
  /\ UNCHANGED <<isExploding, isDispersing, isOrbiting, explosionTime,
                 dispersionTime, orbitTime, orbitBounds, particle, updates,
                 regime, clamped, velocityFrom, displacedBy, lastApi, elapsed,
                 elapsedBefore, calledFrom>>
  /\ UNCHANGED <<bufVars, hookVars, clsVars, recVars, orbVars, trkVars>>

\* one round of the Fisher-Yates loop: j = Math.floor(Math.random() * (i + 1))
shuffleStep(j) ==
  /\ asgPhase = "shuffle"
  /\ j \in 0..loopIndex
  /\ shuffledIndices' = [shuffledIndices EXCEPT ![loopIndex] = shuffledIndices[j],
                                                ![j] = shuffledIndices[loopIndex]]
  /\ loopIndex' = IF loopIndex > 1 THEN loopIndex - 1 ELSE 0
  /\ asgPhase' = IF loopIndex > 1 THEN "shuffle" ELSE "assign"
  /\ UNCHANGED <<particleCount, targetCount, targets>>
  /\ UNCHANGED <<bufVars, engVars, hookVars, clsVars, recVars, orbVars, trkVars>>

\* one round of the assignment loop; rx, ry, rz are (Math.random() - 0.5) * 2
assignStep(rx, ry, rz) ==
  /\ asgPhase = "assign"
  /\ LET particleIndex == shuffledIndices[loopIndex]
         targetIndex   == targetIndexOf(loopIndex, targetCount)
         point         == points(targetCount)[targetIndex]
         layer         == layerOf(loopIndex, targetCount)
         \* layer * 0.05, in 1/400
         jitter        == layer * 10
     IN  targets' = [targets EXCEPT ![particleIndex] =
                       [anchor |-> targetIndex,
                        layer  |-> layer,
                        target |-> <<point[1] + quot(rx * jitter, 2),
                                     point[2] + quot(ry * jitter, 2),
                                     point[3] + quot(rz * jitter, 2)>>,
                        times  |-> @.times + 1]]
  /\ loopIndex' = loopIndex + 1
  /\ asgPhase' = IF loopIndex + 1 < particleCount THEN "assign" ELSE "done"
  /\ UNCHANGED <<particleCount, targetCount, shuffledIndices>>
  /\ UNCHANGED <<bufVars, engVars, hookVars, clsVars, recVars, orbVars, trkVars>>

(***************************************************************************)
(* The orbit tangent of orbitAroundBounds and updateOrbiting, in three     *)
(* dimensions.  Positions in world units relative to the centre of the     *)
(* bounds; unit vectors in 1/20; velocities in 1/400; a vector is NaN      *)
(* when one of its components is.                                          *)
(***************************************************************************)
\* largest number of orbit calls considered
MaxOrbitCalls == 2
\* length of a unit vector
UnitLength == 20

Vec(x, y, z) == [x |-> x, y |-> y, z |-> z, nan |-> FALSE]
NaNVec == [x |-> 0, y |-> 0, z |-> 0, nan |-> TRUE]

lengthSq(v) == v.x * v.x + v.y * v.y + v.z * v.z

\* the largest r in lo..hi with r * r <= n
RECURSIVE root(_, _, _)
root(n, lo, hi) ==
  IF lo >= hi THEN lo
  ELSE LET mid == (lo + hi + 1) \div 2
       IN  IF mid * mid <= n THEN root(n, mid, hi) ELSE root(n, lo, mid - 1)

\* Vector3.length()
length(v) == root(lengthSq(v), 0, 40000)

add(a, b) ==
  IF a.nan \/ b.nan THEN NaNVec ELSE Vec(a.x + b.x, a.y + b.y, a.z + b.z)

multiplyScalar(v, k) ==
  IF v.nan THEN NaNVec ELSE Vec(v.x * k, v.y * k, v.z * k)

\* v / d, component by component
divideScalar(v, d) ==
  IF v.nan THEN NaNVec ELSE Vec(round(v.x, d), round(v.y, d), round(v.z, d))

crossVectors(a, b) ==
  IF a.nan \/ b.nan THEN NaNVec
  ELSE Vec(a.y * b.z - a.z * b.y, a.z * b.x - a.x * b.z, a.x * b.y - a.y * b.x)

\* variant: the vector is divided by its length whatever it is; 0 / 0 is NaN
normalize_Divide(v) ==
  IF v.nan \/ length(v) = 0 THEN NaNVec
  ELSE divideScalar(multiplyScalar(v, UnitLength), length(v))

\* Vector3.normalize(): divideScalar(length() || 1)
normalize(v) ==
  IF v.nan THEN NaNVec
  ELSE divideScalar(multiplyScalar(v, UnitLength),
                    IF length(v) = 0 THEN 1 ELSE length(v))

\* tangent.length() < 0.01, for a vector in 1/20; false of NaN
degenerate(tangent_) == ~tangent_.nan /\ lengthSq(tangent_) * 25 < 1

altAxis == Vec(UnitLength, 0, 0)

\* the tangent of radialDir and the particle's orbit axis, with the fallback
orbitTangent(radialDir, orbitAxis) ==
  LET first == normalize(crossVectors(radialDir, orbitAxis))
  IN  IF degenerate(first)
        THEN [radial |-> radialDir, axis |-> "altAxis",
              vector |-> normalize(crossVectors(radialDir, altAxis))]
        ELSE [radial |-> radialDir, axis |-> "orbitAxis", vector |-> first]

\* orbit axes of particles: unit vectors with a small Y component
OrbitAxes == {Vec(20, 0, 0), Vec(0, 0, 20), Vec(12, 0, 16), Vec(-16, 3, 12)}
\* positions particles are in when updateOrbiting runs
StartPositions == {Vec(0, 0, 0), Vec(5, 0, 0), Vec(3, 0, 4), Vec(0, 26, 0), Vec(4, 3, -3)}
\* points of the sphere orbitAroundBounds places particles on (radius 14 to 26)
SpherePoints == {Vec(20, 0, 0), Vec(-14, 0, 0), Vec(0, 0, 26), Vec(12, 0, 16),
                 Vec(0, 20, 0), Vec(12, 16, 0)}
\* randomOffset of orbitAroundBounds: components (Math.random() - 0.5) * 0.3
RandomOffsets == {Vec(0, 0, 0), Vec(3, 3, 3), Vec(-3, 2, -1)}

OrbParticle(position, axis, speed) ==
  [current |-> position, velocity |-> Vec(0, 0, 0), orbitAxis |-> axis, speed |-> speed]

OrbNew(p) ==
  /\ orbParticle = p
  /\ orbTangent = [radial |-> Vec(0, 0, 0), axis |-> "none", vector |-> Vec(0, 0, 0)]
  /\ orbCall = "none"
  /\ orbCalls = 0

OrbInit ==
  \E position \in StartPositions, axis \in OrbitAxes, speed \in Speeds :
    OrbNew(OrbParticle(position, axis, speed))


\* orbitAroundBounds, one particle: it is placed at `position` of the sphere
\* and given the velocity of the tangent there
orbitPlace(position, randomOffset) ==
  /\ orbCalls < MaxOrbitCalls
  /\ LET radialDir == normalize(position)
         t         == orbitTangent(radialDir, orbParticle.orbitAxis)
         tangent_  == normalize(add(t.vector, randomOffset))
     IN  /\ orbTangent' = t
         /\ orbParticle' = [orbParticle EXCEPT
                              !.current = position,
                              !.velocity = multiplyScalar(tangent_, 6 * orbParticle.speed)]
  /\ orbCall' = "orbitAroundBounds"
  /\ orbCalls' = orbCalls + 1
  /\ UNCHANGED <<bufVars, engVars, hookVars, clsVars, recVars, asgVars, trkVars>>

\* updateOrbiting, one particle
orbitMove(deltaTime, sine) ==
  /\ orbCalls < MaxOrbitCalls
  /\ LET toCenter     == multiplyScalar(orbParticle.current, -1)
         distance     == length(toCenter)
         radialDir    == orbParticle.current
         t            == orbitTangent(radialDir, orbParticle.orbitAxis)
         wave         == sine * 6
         orbitalSpeed == 20 * orbParticle.speed
         velocity     == add(multiplyScalar(t.vector, orbitalSpeed),
                             multiplyScalar(normalize(toCenter),
                                            radialSpeed(orbParticle, distance * 200) + wave))
         \* the jitter of at most 0.075 is finite and below the unit of positions
         moved        == add(orbParticle.current,
                             divideScalar(multiplyScalar(velocity, deltaTime * 60), 4000))
     IN  /\ orbTangent' = t
         /\ orbParticle' = [orbParticle EXCEPT !.velocity = velocity, !.current = moved]
  /\ orbCall' = "updateOrbiting"
  /\ orbCalls' = orbCalls + 1
  /\ UNCHANGED <<bufVars, engVars, hookVars, clsVars, recVars, asgVars, trkVars>>

(***************************************************************************)
(* useMediaPipeHands: the effect that requests the camera and starts the   *)
(* HandTracker, step by step, and its cleanup.                             *)
(***************************************************************************)
\* largest number of camera frames considered
MaxFrames == 12

\* error.name of a rejected getUserMedia, and the message shown for it
ErrorNames == {"NotAllowedError", "NotFoundError", "NotReadableError", "Error"}
messageOf(name) ==
  CASE name \in {"NotAllowedError", "PermissionDeniedError"} -> "permission denied"
    [] name \in {"NotFoundError", "DevicesNotFoundError"}    -> "no camera"
    [] name \in {"NotReadableError", "TrackStartError"}      -> "camera in use"
    [] OTHER                                                 -> "failed to initialize"

\* the effect has run: initializeTracking has called getUserMedia
TrkNew ==
  /\ mounted = TRUE
  /\ initStep = "getUserMedia"
  /\ mediaStream = FALSE
  /\ streamTracks = "none"
  /\ videoRefCurrent = TRUE
  /\ handTrackerRef = FALSE
  /\ hands = "none"
  /\ camera = FALSE
  /\ cameraState = "none"
  /\ isTracking = FALSE
  /\ isInitializedRef = FALSE
  /\ trackingError = "null"
  /\ handLandmarks = "null"
  /\ frames = 0
  /\ sent = 0

\* the specifications that do not follow the tangent keep no
\* three-dimensional particle
NoOrbit ==
  /\ orbParticle = NULL
  /\ orbTangent = NULL
  /\ orbCall = "none"
  /\ orbCalls = 0

MoreNew == AsgNew /\ NoOrbit /\ TrkNew

\* what Camera.stop() of @mediapipe/camera_utils leaves: it stops the tracks
\* of the stream the camera has acquired; a camera whose start() is pending
\* has none yet
cameraStopped(state) == IF state = "running" THEN "stopped" ELSE state

\* HandTracker.dispose(): stop(), hands.close(), and the fields set to null
disposed(hands_, camera_, state) ==
  [hands  |-> IF hands_ = "open" THEN "closed" ELSE hands_,
   camera |-> FALSE,
   state  |-> IF camera_ THEN cameraStopped(state) ELSE state]

\* the catch block of initializeTracking
catch(message) ==
  /\ initStep' = (IF mounted THEN "failed" ELSE "done")
  /\ IF mounted
       THEN trackingError' = message /\ isTracking' = FALSE
       ELSE UNCHANGED <<trackingError, isTracking>>

\* getUserMedia resolves with a stream
getUserMediaResolved ==
  /\ initStep = "getUserMedia"
  /\ IF ~mounted
       THEN /\ streamTracks' = "stopped"
            /\ initStep' = "done"
            /\ UNCHANGED mediaStream
       ELSE /\ streamTracks' = "live"
            /\ mediaStream' = TRUE
            /\ initStep' = "metadata"
  /\ UNCHANGED <<mounted, videoRefCurrent, handTrackerRef, hands, camera,
                 cameraState, isTracking, isInitializedRef, trackingError,
                 handLandmarks, frames, sent>>
  /\ UNCHANGED <<bufVars, engVars, hookVars, clsVars, recVars, asgVars, orbVars>>

\* getUserMedia rejects with an error of the given name
getUserMediaRejected(name) ==
  /\ initStep = "getUserMedia"
  /\ catch(messageOf(name))
  /\ UNCHANGED <<mounted, mediaStream, streamTracks, videoRefCurrent,
                 handTrackerRef, hands, camera, cameraState, isInitializedRef,
                 handLandmarks, frames, sent>>
  /\ UNCHANGED <<bufVars, engVars, hookVars, clsVars, recVars, asgVars, orbVars>>

\* the video has loaded its metadata and plays: the HandTracker is created
\* and tracker.initialize runs (it has no await of its own); `ok` is false
\* when the Hands or Camera constructor throws
metadataLoaded(ok) ==
  /\ initStep = "metadata"
  /\ IF ~mounted \/ ~videoRefCurrent
       THEN /\ initStep' = "done"
            /\ UNCHANGED <<handTrackerRef, hands, camera, cameraState,
                           trackingError, isTracking>>
       ELSE /\ handTrackerRef' = TRUE
            /\ initStep' = "initialize"
            /\ IF ok
                 THEN /\ hands' = "open"
                      /\ camera' = TRUE
                      /\ cameraState' = "idle"
                      /\ UNCHANGED <<trackingError, isTracking>>
                 ELSE /\ trackingError' = "mediapipe"
                      /\ isTracking' = FALSE
                      /\ UNCHANGED <<hands, camera, cameraState>>
  /\ UNCHANGED <<mounted, mediaStream, streamTracks, videoRefCurrent,
                 isInitializedRef, handLandmarks, frames, sent>>
  /\ UNCHANGED <<bufVars, engVars, hookVars, clsVars, recVars, asgVars, orbVars>>

\* the video reports an error, or play() is rejected
metadataFailed ==
  /\ initStep = "metadata"
  /\ catch("failed to initialize")
  /\ UNCHANGED <<mounted, mediaStream, streamTracks, videoRefCurrent,
                 handTrackerRef, hands, camera, cameraState, isInitializedRef,
                 handLandmarks, frames, sent>>
  /\ UNCHANGED <<bufVars, engVars, hookVars, clsVars, recVars, asgVars, orbVars>>

\* await tracker.initialize(...) returns: dispose when unmounted, else
\* tracker.start(), which throws without a camera and else calls camera.start()
initializeResolved ==
  /\ initStep = "initialize"
  /\ IF ~mounted
       THEN /\ LET d == disposed(hands, camera, cameraState)
               IN  hands' = d.hands /\ camera' = d.camera /\ cameraState' = d.state
            /\ initStep' = "done"
            /\ UNCHANGED <<trackingError, isTracking>>
       ELSE IF ~camera
         THEN /\ catch("failed to initialize")
              /\ UNCHANGED <<hands, camera, cameraState>>
         ELSE /\ cameraState' = "starting"
              /\ initStep' = "start"
              /\ UNCHANGED <<hands, camera, trackingError, isTracking>>
  /\ UNCHANGED <<mounted, mediaStream, streamTracks, videoRefCurrent,
                 handTrackerRef, isInitializedRef, handLandmarks, frames, sent>>
  /\ UNCHANGED <<bufVars, engVars, hookVars, clsVars, recVars, asgVars, orbVars>>

\* camera.start() settles and await tracker.start() returns; when it was
\* rejected, HandTracker.start reports the error through onError and returns
startResolved(ok) ==
  /\ initStep = "start"
  /\ cameraState' = (IF cameraState = "starting"
                       THEN (IF ok THEN "running" ELSE "failed")
                       ELSE cameraState)
  /\ initStep' = "done"
  /\ IF mounted
       THEN /\ isTracking' = TRUE
            /\ isInitializedRef' = TRUE
            /\ trackingError' = (IF ok THEN trackingError ELSE "mediapipe")
       ELSE /\ UNCHANGED <<isTracking, isInitializedRef>>
            /\ trackingError' = trackingError
  /\ UNCHANGED <<mounted, mediaStream, streamTracks, videoRefCurrent,
                 handTrackerRef, hands, camera, handLandmarks, frames, sent>>
  /\ UNCHANGED <<bufVars, engVars, hookVars, clsVars, recVars, asgVars, orbVars>>

\* the results of a frame: multiHandLandmarks, when defined, lists the
\* landmark arrays of the hands seen, named here by the shape of the hand
Results ==
  {[defined |-> FALSE, multiHandLandmarks |-> <<>>],
   [defined |-> TRUE, multiHandLandmarks |-> <<>>],
   [defined |-> TRUE, multiHandLandmarks |-> <<"palm">>],
   [defined |-> TRUE, multiHandLandmarks |-> <<"fist">>],
   [defined |-> TRUE, multiHandLandmarks |-> <<"point", "palm">>]}

\* handleResults: the landmarks of the first hand, or null
handleResults(results) ==
  IF results.defined /\ Len(results.multiHandLandmarks) > 0
    THEN results.multiHandLandmarks[1]
    ELSE "null"

\* Camera onFrame: hands.send when the tracker still has its Hands, and the
\* results callback
onFrame(results) ==
  /\ cameraState = "running"
  /\ frames < MaxFrames
  /\ frames' = frames + 1
  /\ IF hands = "open"
       THEN /\ sent' = sent + 1
            /\ handLandmarks' = (IF mounted THEN handleResults(results) ELSE handLandmarks)
       ELSE UNCHANGED <<sent, handLandmarks>>
  /\ UNCHANGED <<mounted, initStep, mediaStream, streamTracks, videoRefCurrent,
                 handTrackerRef, hands, camera, cameraState, isTracking,
                 isInitializedRef, trackingError>>
  /\ UNCHANGED <<bufVars, engVars, hookVars, clsVars, recVars, asgVars, orbVars>>

\* the component unmounts: React clears videoRef and runs the cleanup
unmount ==
  /\ mounted
  /\ mounted' = FALSE
  /\ videoRefCurrent' = FALSE
  /\ streamTracks' = (IF mediaStream /\ streamTracks = "live" THEN "stopped"
                      ELSE streamTracks)
  /\ IF handTrackerRef
       THEN LET d == disposed(hands, camera, cameraState)
            IN  hands' = d.hands /\ camera' = d.camera /\ cameraState' = d.state
       ELSE UNCHANGED <<hands, camera, cameraState>>
  /\ handTrackerRef' = FALSE
  /\ isTracking' = FALSE
  /\ handLandmarks' = "null"
  /\ isInitializedRef' = FALSE
  /\ UNCHANGED <<initStep, mediaStream, trackingError, frames, sent>>
  /\ UNCHANGED <<bufVars, engVars, hookVars, clsVars, recVars, asgVars, orbVars>>

(***************************************************************************)
(* Specifications.                                                         *)
(***************************************************************************)
\* RapidPulseBuffer under any sequence of calls
BufNext ==
  \/ \E type \in InputTypes, gap \in Gaps : addGesture(type, gap)
  \/ detectRapidPulse
  \/ reset

BufferInit ==
  BufInit /\ EngineNew(Particle(0, 2, 1)) /\ HookNew /\ ClsNew /\ RecNew /\ MoreNew

SpecBuffer == BufferInit /\ [][BufNext]_vars

\* ParticleSystem under any interleaving of its public methods
EngNext ==
  \/ \E point \in Anchors, layer \in Layers, jit \in LayerJitters :
       setTarget(point, layer, jit) /\ UNCHANGED <<bufVars, hookVars, clsVars, recVars, moreVars>>
  \/ setTargetEmpty /\ UNCHANGED <<bufVars, hookVars, clsVars, recVars, moreVars>>
  \/ setIdleState /\ UNCHANGED <<bufVars, hookVars, clsVars, recVars, moreVars>>
  \/ \E dir \in Directions : disperse(dir) /\ UNCHANGED <<bufVars, hookVars, clsVars, recVars, moreVars>>
  \/ explode /\ UNCHANGED <<bufVars, hookVars, clsVars, recVars, moreVars>>
  \/ \E centre \in Centres, side \in Directions, variation \in RadiusVariations,
        side2 \in OffsetSides :
       orbitAroundBounds(centre, side, variation, side2)
         /\ UNCHANGED <<bufVars, hookVars, clsVars, recVars, moreVars>>
  \/ \E deltaTime \in DeltaTimes : update(deltaTime) /\ UNCHANGED <<bufVars, hookVars, clsVars, recVars, moreVars>>

Init == BufInit /\ EngInit /\ HookNew /\ ClsNew /\ RecNew /\ MoreNew

SpecEngine == Init /\ [][EngNext]_vars

\* the engine as useParticleSystem and the render loop drive it
HookNext ==
  \/ setIsReady /\ UNCHANGED <<bufVars, clsVars, recVars, moreVars>>
  \/ \E text \in TargetTexts :
       setTargetText(text) /\ sameTicks' = 0
         /\ UNCHANGED <<bufVars, clsVars, recStateVars, moreVars>>
  \/ \E rerun \in BOOLEAN :
       sameTargetText(rerun) /\ UNCHANGED <<bufVars, clsVars, recStateVars, moreVars>>
  \/ targetTextEffect /\ UNCHANGED <<bufVars, clsVars, recVars, moreVars>>
  \/ \E id \in timers : timerCallback(id) /\ UNCHANGED <<bufVars, clsVars, recVars, moreVars>>
  \/ \E deltaTime \in DeltaTimes : animate(deltaTime) /\ UNCHANGED <<bufVars, clsVars, recVars, moreVars>>

SpecHook == Init /\ [][HookNext]_vars

\* one frame of the render loop while the engine is morphing
morphFrame ==
  /\ Mode = "morph"
  /\ \E deltaTime \in DeltaTimes : interpolateToTarget(deltaTime)
  /\ UNCHANGED <<bufVars, hookVars, clsVars, recVars, moreVars>>

\* setTarget on a new engine, then the render loop
MorphNext ==
  \/ \E point \in Anchors, layer \in Layers, jit \in LayerJitters :
       /\ lastApi = "new"
       /\ setTarget(point, layer, jit)
       /\ UNCHANGED <<bufVars, hookVars, clsVars, recVars, moreVars>>
  \/ morphFrame

\* requestAnimationFrame keeps calling update
SpecMorph == Init /\ [][MorphNext]_vars /\ WF_vars(morphFrame)

\* GestureClassifier.classify on any landmark set
ClsNext ==
  \E lm \in LandmarkSets : classifyCall(lm)

SpecClassifier == BufferInit /\ [][ClsNext]_vars

\* useGestureRecognizer under any sequence of landmark updates
RecNext ==
  \E lm \in TickLandmarks, gap \in TickGaps : tick(lm, gap)

SpecRecognizer == BufferInit /\ [][RecNext]_vars

\* one setTarget call on an engine of up to MaxParticles particles
AsgNext ==
  \/ \E n \in 1..MaxParticles, m \in 1..MaxAnchors : setTargetBegin(n, m)
  \/ \E j \in 0..MaxParticles : shuffleStep(j)
  \/ \E rx \in Jitters, ry \in Jitters, rz \in Jitters : assignStep(rx, ry, rz)

SpecAssign == BufferInit /\ [][AsgNext]_vars

\* the orbit calls on one particle, from any position and orbit axis
OrbNext ==
  \/ \E position \in SpherePoints, randomOffset \in RandomOffsets :
       orbitPlace(position, randomOffset)
  \/ \E deltaTime \in DeltaTimes \ {5}, sine \in Sines : orbitMove(deltaTime, sine)

OrbitInit ==
  BufInit /\ EngineNew(Particle(0, 2, 1)) /\ HookNew /\ ClsNew /\ RecNew
    /\ AsgNew /\ OrbInit /\ TrkNew

SpecOrbit == OrbitInit /\ [][OrbNext]_vars

\* the initialisation of hand tracking, with the unmount at any point
TrkNext ==
  \/ getUserMediaResolved
  \/ \E name \in ErrorNames : getUserMediaRejected(name)
  \/ \E ok \in BOOLEAN : metadataLoaded(ok)
  \/ metadataFailed
  \/ initializeResolved
  \/ \E ok \in BOOLEAN : startResolved(ok)
  \/ \E results \in Results : onFrame(results)
  \/ unmount

SpecTracking == BufferInit /\ [][TrkNext]_vars

(***************************************************************************)
(* Claims about RapidPulseBuffer (checked under SpecBuffer).               *)
(***************************************************************************)
histType(i) == hist[i][1]
histTime(i) == hist[i][2]

\* hist is OPEN_PALM, FIST, OPEN_PALM, FIST, ... up to its length
Alternating ==
  \A i \in 1..Len(hist) : histType(i) = (IF i % 2 = 1 THEN "OPEN_PALM" ELSE "FIST")

\* the five gestures of the one-shot law, all timestamps inside one window
PulseOfFive ==
  /\ Len(hist) = 5
  /\ Alternating
  /\ histTime(5) - histTime(1) <= RAPID_PULSE_WINDOW_MS

\* C1: one-shot law.  Whenever detectRapidPulse has returned true the buffer
\* is empty and lastGesture is null; a detectRapidPulse call that directly
\* follows one that returned true returns false; and after the gestures
\* OPEN_PALM, FIST, OPEN_PALM, FIST, OPEN_PALM inside one window, once
\* detectRapidPulse has been called it has returned true exactly once.
C1_OneShot ==
  /\ [](pulseResult = "true" => buffer = <<>> /\ lastGesture = NULL)
  /\ [][(pulseResult = "true" /\ lastCall' = "detectRapidPulse")
          => pulseResult' = "false"]_vars
  /\ []((PulseOfFive /\ lastCall = "detectRapidPulse") => fired = 1)

\* C1 witness: the five gestures were added and detectRapidPulse returned true
C1_Witness == PulseOfFive /\ pulseResult = "true" /\ fired = 1

\* C2 as stated: five alternating gestures spanning more than the window
\* from first to last never make detectRapidPulse return true.
C2_SpanOfFive ==
  (Len(hist) = 5 /\ Alternating
     /\ histTime(5) - histTime(1) > RAPID_PULSE_WINDOW_MS)
  => pulseResult # "true"

\* every three consecutive transitions of hist span more than the window
SpreadOut ==
  \A i \in 2..Len(hist) :
    i + 2 <= Len(hist) => histTime(i + 2) - histTime(i) > RAPID_PULSE_WINDOW_MS

\* C2 (amended): an alternating OPEN_PALM/FIST sequence of up to five
\* gestures in which every three consecutive transitions span more than
\* windowMs (gesture 4 is more than windowMs after gesture 2, gesture 5 more
\* than windowMs after gesture 3) never makes detectRapidPulse return true.
C2_WindowExpiry ==
  (Len(hist) <= 5 /\ Alternating /\ SpreadOut) => (pulseResult # "true" /\ fired = 0)

\* C2 witness: such a sequence of five was fed and detectRapidPulse said false
C2_Witness ==
  /\ Len(hist) = 5 /\ Alternating /\ SpreadOut
  /\ lastCall = "detectRapidPulse" /\ pulseResult = "false"

\* C3: buffer age invariant.  After every addGesture call with timestamp t,
\* whether or not the call recorded a transition, every buffered event is
\* strictly newer than t - windowMs.
C3_StrictAge ==
  lastCall = "addGesture" =>
    \A i \in 1..Len(buffer) : buffer[i].timestamp > clock - RAPID_PULSE_WINDOW_MS

(***************************************************************************)
(* Claims about ParticleSystem (checked under SpecEngine).                 *)
(***************************************************************************)
\* the last ParticleSystem method called
LastOp == IF regime # "none" THEN "update" ELSE lastApi

flagCount ==
  (IF isIdle THEN 1 ELSE 0) + (IF isExploding THEN 1 ELSE 0)
    + (IF isDispersing THEN 1 ELSE 0) + (IF isOrbiting THEN 1 ELSE 0)

\* C4: mode exclusivity.  In every reachable state at most one of the flags
\* isIdle, isExploding, isDispersing, isOrbiting is true (morphing being the
\* state where none is).
C4_ModeExclusivity == flagCount <= 1

\* C5: dispersion self-resolves to IDLE.  After disperse() followed only by
\* update calls whose deltaTime sum has reached the dispersion duration, the
\* engine is in IDLE (the next update runs the idle regime), and every update
\* made after that point ran the idle regime.
C5_DispersionResolves ==
  /\ (lastApi = "disperse" /\ elapsed >= DISPERSION_DURATION) => Mode = "idle"
  /\ (lastApi = "disperse" /\ LastOp = "update"
        /\ elapsedBefore >= DISPERSION_DURATION) => regime = "idle"

\* C6: explosion decay.  After explode() followed only by update calls whose
\* deltaTime sum has reached the explosion duration, isExploding is false, and
\* no update made after that point moved the particle by the velocity that
\* explode() assigned.
C6_ExplosionDecay ==
  /\ (lastApi = "explode" /\ elapsed >= EXPLOSION_DURATION) => ~isExploding
  /\ (lastApi = "explode" /\ LastOp = "update"
        /\ elapsedBefore >= EXPLOSION_DURATION) => displacedBy # "explode"

\* the regime a mode-entry call asks for
regimeOf(call) ==
  CASE call = "setTarget"         -> "morph"
    [] call = "explode"           -> "explosion"
    [] call = "disperse"          -> "dispersion"
    [] call = "orbitAroundBounds" -> "orbit"

\* C7: engine-level cancellation.  Right after a mode-entry call (setTarget
\* with anchor points, explode, disperse, orbitAroundBounds) the flags of all
\* other modes are clear and the next update runs the regime of that call.
C7_Cancellation ==
  LastOp \in {"setTarget", "explode", "disperse", "orbitAroundBounds"} =>
    /\ Mode = regimeOf(LastOp)
    /\ isExploding = (LastOp = "explode")
    /\ isDispersing = (LastOp = "disperse")
    /\ isOrbiting = (LastOp = "orbitAroundBounds")
    /\ ~isIdle

\* C10 as stated: whenever the engine is in IDLE mode after an update call,
\* including the update on which a dispersion ends, the particle is within
\* PARTICLE_IDLE_RADIUS of the origin.
C10_IdleModeContained ==
  (LastOp = "update" /\ Mode = "idle") => abs(particle.current) <= IdleRadius

\* C10 (amended): after every update call that ran the idle regime (isIdle
\* true and no higher-priority flag when the call began) the particle is
\* within PARTICLE_IDLE_RADIUS of the origin; the update on which a
\* dispersion ends runs the dispersion regime and can leave it outside.
C10_IdleContainment ==
  regime = "idle" => abs(particle.current) <= IdleRadius

\* C10 witness: an idle update whose drift left the sphere and was clamped
C10_Witness ==
  regime = "idle" /\ clamped /\ abs(particle.current) = IdleRadius

(***************************************************************************)
(* Claims about useParticleSystem (checked under SpecHook).                *)
(***************************************************************************)
\* C8: no pending transition at the orchestration layer.  The delayed orbit
\* scheduled for the combo text never reaches the engine after a later target
\* text change has been handled.
C8_NoPendingTransition == issuedBy # "staleTimer"

\* C9: return to idle on no gesture.  While the target text is null, has been
\* handled as null, and no dispersion is running, the engine is neither
\* ORBITING nor EXPLODING.
C9_ReturnToIdle ==
  (targetText = NULL /\ prevTargetText = NULL /\ ~effectPending /\ ~isDispersing)
    => Mode \notin {"orbit", "explosion"}

(***************************************************************************)
(* Claims about GestureClassifier (checked under SpecClassifier).          *)
(***************************************************************************)
\* classify has been called, on a landmark array of length 21
classified ==
  gesture # NoGesture /\ ~landmarks.isNull /\ Len(landmarks.points) = 21

\* the number of the four non-thumb fingers that are extended
fingersUp ==
  (IF indexExtended(landmarks) THEN 1 ELSE 0)
    + (IF middleExtended(landmarks) THEN 1 ELSE 0)
    + (IF ringExtended(landmarks) THEN 1 ELSE 0)
    + (IF pinkyExtended(landmarks) THEN 1 ELSE 0)

\* the thumb test, written out on the coordinates
thumbOut ==
  10 * abs(at(landmarks, THUMB_TIP).x - at(landmarks, WRIST).x)
    > 13 * abs(at(landmarks, THUMB_MCP).x - at(landmarks, WRIST).x)

C13_FistRule ==
  classified =>
    /\ (gesture = GestureState("FIST", 95)) <=> (fingersUp = 0)
    /\ gesture.type = "FIST" => gesture.confidence = 95
    /\ gesture.type \notin {"OPEN_PALM", "POINT", "VICTORY", "THREE_COUNT", "FIST"}
         => gesture = GestureState("UNKNOWN", 50)

\* every fingertip is above the joint below it (the thumb tip above its base
\* knuckle)
tipsUp == fingersUp = 4 /\ at(landmarks, THUMB_TIP).y < at(landmarks, THUMB_MCP).y

\* C14 as stated: whenever every fingertip's y is strictly less than its
\* joint's y, classify counts 5 extended fingers and returns OPEN_PALM,
\* whatever the x coordinates of the thumb tip, thumb base knuckle and wrist.
C14_TipsUpIsPalm ==
  (classified /\ tipsUp) =>
    (countExtendedFingers(landmarks) = 5 /\ gesture = GestureState("OPEN_PALM", 100))

\* C14 (amended): whenever the tips of the index, middle, ring and pinky
\* fingers have a y strictly less than their PIP joints' y and the thumb tip's
\* horizontal distance from the wrist exceeds 1.3 times that of the thumb base
\* knuckle, classify counts 5 extended fingers and returns OPEN_PALM.
C14_ExtensionSymmetry ==
  (classified /\ fingersUp = 4 /\ thumbOut) =>
    (countExtendedFingers(landmarks) = 5 /\ gesture = GestureState("OPEN_PALM", 100))

\* C14 witness: an open palm whose thumb points sideways below its knuckle
C14_Witness ==
  /\ classified /\ fingersUp = 4 /\ thumbOut
  /\ at(landmarks, THUMB_TIP).y > at(landmarks, THUMB_MCP).y
  /\ gesture.type = "OPEN_PALM"

\* C15: classifier fails soft.  classify never raises; null or an array whose
\* length is not 21 yields UNKNOWN with confidence 0, and no other input
\* yields confidence 0.
C15_FailsSoft ==
  gesture # NoGesture =>
    /\ gesture # TypeError
    /\ (landmarks.isNull \/ Len(landmarks.points) # 21)
         => gesture = GestureState("UNKNOWN", 0)
    /\ ~(landmarks.isNull \/ Len(landmarks.points) # 21) => gesture.confidence # 0

\* C15 witness: an array of 20 landmarks was classified as UNKNOWN/0
C15_Witness ==
  /\ ~landmarks.isNull /\ Len(landmarks.points) = 20
  /\ gesture = GestureState("UNKNOWN", 0)

\* the confidence of a category, in hundredths
confidenceOf(type) ==
  CASE type = "OPEN_PALM"   -> 100
    [] type = "POINT"       -> 90
    [] type = "VICTORY"     -> 95
    [] type = "THREE_COUNT" -> 90
    [] type = "FIST"        -> 95
    [] type = "UNKNOWN"     -> 50

handSeen == ticks > 0 /\ ~landmarks.isNull /\ Len(landmarks.points) > 0

PassingTypes == {"OPEN_PALM", "POINT", "VICTORY", "THREE_COUNT", "FIST"}

\* C17: a classification whose confidence is at most 0.8 leaves the target
\* text and the current gesture null and is not fed to the pulse buffer;
\* every UNKNOWN result is suppressed in this way, and every OPEN_PALM, POINT,
\* VICTORY, THREE_COUNT and FIST result passes the gate and is fed.
C17_ConfidenceGate ==
  handSeen =>
    /\ gesture = classify(landmarks)
    /\ (gesture.confidence <= 80 \/ gesture.type = "UNKNOWN") =>
         /\ recText = NULL
         /\ currentGesture = NoGesture
         /\ Len(hist) = fedBefore
    /\ gesture.type \in PassingTypes =>
         /\ gesture.confidence > 80
         /\ currentGesture = gesture
         /\ Len(hist) = fedBefore + 1
         /\ hist[Len(hist)][1] = gesture.type

\* an UNKNOWN of confidence 0.5 is suppressed after a gesture had passed
C17_Witness ==
  /\ handSeen
  /\ gesture = GestureState("UNKNOWN", 50)
  /\ tickKind = "lowConfidence"
  /\ fedBefore >= 1
  /\ currentGesture = NoGesture /\ recText = NULL

\* the text of a gesture type when no pulse fired
lookupText(type) ==
  CASE type = "OPEN_PALM"   -> "SoC"
    [] type = "POINT"       -> "Curiosity"
    [] type = "VICTORY"     -> "Ingenuity"
    [] type = "THREE_COUNT" -> "Deterministic"
    [] OTHER                -> NULL

\* C18: after a tick that passed the gate the target text is
\* 'SP School Of Computing' if detectRapidPulse fired on that tick, and
\* otherwise the text looked up for the gesture type (none for FIST).
C18_ResolvedLabel ==
  (handSeen /\ gesture.type \in PassingTypes) =>
    /\ pulseResult \in {"true", "false"}
    /\ recText = (IF pulseResult = "true" THEN "SP School Of Computing"
                  ELSE lookupText(gesture.type))

\* the pulse fires on a FIST tick: the text of the combination replaces
\* the missing text of FIST
C18_Witness ==
  /\ handSeen /\ gesture.type = "FIST"
  /\ pulseResult = "true" /\ recText = "SP School Of Computing"

\* C20: after every tick whose landmarks are null or empty, the target text
\* and the current gesture are null, whatever the ticks before it were.
C20_NoHandNoTarget ==
  (ticks > 0 /\ (landmarks.isNull \/ Len(landmarks.points) = 0)) =>
    /\ recText = NULL
    /\ currentGesture = NoGesture

\* the hand leaves the view on the tick after the combination fired
C20_Witness ==
  /\ ticks = 5 /\ fedBefore = 4 /\ Len(hist) = 4 /\ fired = 1
  /\ landmarks.isNull
  /\ recText = NULL /\ currentGesture = NoGesture

(***************************************************************************)
(* Claims about the target text effect (checked under SpecHook)            *)
(***************************************************************************)
\* C19: the handler of the effect runs only when the target text differs
\* from the text handled last; a run of ticks with the same text makes the
\* handler run once, and a run of the effect on an unchanged text issues no
\* call to the engine.
C19_EdgeTriggered ==
  /\ [][handled' # handled =>
          (targetText # prevTargetText /\ prevTargetText' = targetText)]_vars
  /\ [][(effectPending /\ ~effectPending' /\ targetText = prevTargetText) =>
          (handled' = handled /\ UNCHANGED engVars)]_vars
  /\ [][sameTicks' = sameTicks + 1 =>
          (handled' = handled /\ UNCHANGED engVars)]_vars
  /\ [](handled <= changes)

\* two more ticks with the text already handled, the effect having run
\* again: the text was handled once
C19_Witness ==
  /\ sameTicks = 2 /\ changes = 1 /\ handled = 1
  /\ isReady /\ ~effectPending
  /\ targetText = "SoC" /\ prevTargetText = "SoC"
  /\ lastApi = "orbitAroundBounds"

(***************************************************************************)
(* Claims about interpolateToTarget (checked under SpecMorph)              *)
(***************************************************************************)
distanceToTarget == abs(particle.target - particle.current)

\* C11: after setTarget with anchors, under repeated updates while morphing,
\* the distance of the particle to its target does not grow while it is
\* above 0.1, it is at most 0.1 after finitely many updates, and from then
\* on it stays within 0.1 plus the largest jitter step.
C11_MorphConvergence ==
  /\ [][(lastApi = "setTarget" /\ distanceToTarget > 20) =>
          distanceToTarget' <= distanceToTarget]_vars
  /\ (lastApi = "setTarget") ~> (distanceToTarget <= 20)
  /\ []((lastApi = "setTarget" /\ distanceToTarget <= 20) =>
          [](distanceToTarget <= 20 + 4 * particle.speed))

\* the particle was moved by the jitter to beyond 0.1 of its target
C11_Witness ==
  /\ lastApi = "setTarget" /\ regime = "morph"
  /\ distanceToTarget > 20
  /\ distanceToTarget <= 20 + 4 * particle.speed

(***************************************************************************)
(* Further claims about RapidPulseBuffer (checked under SpecBuffer)        *)
(***************************************************************************)
\* the events between OPEN_PALM and FIST, in buffer order
palmFistEvents(buf) ==
  SelectSeq(buf, LAMBDA e : /\ e.fromType \in {"OPEN_PALM", "FIST"}
                            /\ e.toType \in {"OPEN_PALM", "FIST"})

\* the number of those events whose toType differs from the one before it
\* among them, the first always counting
changesOfDestination(buf) ==
  LET r == palmFistEvents(buf)
  IN  Cardinality({i \in 1..Len(r) : i = 1 \/ r[i].toType # r[i - 1].toType})

C30_TransitionRecording ==
  [][lastCall' = "addGesture" =>
       LET type == hist'[Len(hist')][1]
           ts   == hist'[Len(hist')][2]
       IN  /\ lastGesture' = type
           /\ IF lastGesture # NULL /\ lastGesture # type
                THEN /\ Len(buffer') >= 1
                     /\ buffer'[Len(buffer')] =
                          [fromType |-> lastGesture, toType |-> type, timestamp |-> ts]
                     /\ \E k \in 0..Len(buffer) :
                          SubSeq(buffer', 1, Len(buffer') - 1) =
                            SubSeq(buffer, k + 1, Len(buffer))
                ELSE buffer' = buffer
           /\ (lastCall \in {"new", "reset"} \/ pulseResult = "true") =>
                buffer' = <<>>]_vars

\* the first gesture after a fired pattern left the buffer empty
C30_Witness ==
  /\ lastCall = "addGesture" /\ fired = 1
  /\ buffer = <<>> /\ lastGesture = "FIST" /\ ~recorded

(***************************************************************************)
(* Further claims about ParticleSystem (checked under SpecEngine)          *)
(***************************************************************************)
\* the last call other than update was explode() made while exploding
explodeRestarted == lastApi = "explode" /\ calledFrom.mode = "explosion"
\* the last call other than update was disperse() made while dispersing
disperseRestarted == lastApi = "disperse" /\ calledFrom.dispersing

\* C21: explode() called while exploding and disperse() called while
\* dispersing set the timer of the mode to zero and assign the velocity anew,
\* leave the engine in that mode, and the mode lasts until the deltaTime
\* accumulated since that call reaches the duration of the mode.
C21_RestartableImpulses ==
  /\ explodeRestarted =>
       /\ LastOp = "explode" =>
            /\ explosionTime = 0
            /\ velocityFrom = "explode"
            /\ particle.velocity = sgn(particle.current) * 50 * particle.speed
       /\ elapsed < EXPLOSION_DURATION =>
            (isExploding /\ Mode = "explosion" /\ explosionTime = elapsed)
       /\ elapsed >= EXPLOSION_DURATION => ~isExploding
  /\ disperseRestarted =>
       /\ LastOp = "disperse" =>
            /\ dispersionTime = 0
            /\ velocityFrom = "disperse"
            /\ abs(particle.velocity) = 30 * particle.speed
       /\ elapsed < DISPERSION_DURATION =>
            (isDispersing /\ Mode = "dispersion" /\ dispersionTime = elapsed)
       /\ elapsed >= DISPERSION_DURATION => ~isDispersing

\* a dispersion restarted by a second disperse() is still running after two
\* updates, 0.2 s after the restart
C21_Witness ==
  /\ disperseRestarted
  /\ updates = 2 /\ regime = "dispersion"
  /\ elapsed = 2 /\ dispersionTime = 2 /\ isDispersing

\* C22: setTarget called with an empty point list does not raise and leaves
\* the mode flags and the particle's target, position and velocity unchanged.
C22_EmptyTargetNoOp ==
  [][LastOp' = "setTargetEmpty" =>
       UNCHANGED <<isIdle, isExploding, isDispersing, isOrbiting, particle>>]_vars

\* C24: on every update that runs the explosion or the dispersion regime,
\* whatever deltaTime >= 0 it is given, the decay factor lies in [0, 1], and
\* the particle is not moved against its velocity.
C24_DecayBounds ==
  [][updates' = updates + 1 =>
       /\ regime' = "explosion" =>
            /\ decayNumer(explosionTime', EXPLOSION_DURATION) \in 0..EXPLOSION_DURATION
            /\ (particle'.current - particle.current) * particle.velocity >= 0
       /\ regime' = "dispersion" =>
            /\ decayNumer(dispersionTime', DISPERSION_DURATION) \in 0..DISPERSION_DURATION
            /\ (particle'.current - particle.current) * particle.velocity >= 0]_vars

\* an update took the explosion time beyond the duration: the factor is 0
\* and the moving particle was not displaced
C24_Witness ==
  /\ regime = "explosion" /\ explosionTime > EXPLOSION_DURATION
  /\ particle.velocity # 0 /\ displacedBy = "none"
  /\ decayNumer(explosionTime, EXPLOSION_DURATION) = 0

C26_ExplosionFallThrough ==
  (lastApi = "explode" /\ elapsed >= EXPLOSION_DURATION) =>
    /\ ~isExploding
    /\ calledFrom.mode = "idle" => Mode = "idle"
    /\ calledFrom.mode = "morph" => Mode = "morph"

\* C27: an update with deltaTime 0 applies no drift, no morph step and no
\* velocity step, in the idle, morphing, exploding and dispersing regimes.
C27_ElapsedTimeScaling ==
  [][(/\ updates' = updates + 1
      /\ elapsed' = elapsed /\ elapsed < EXPLOSION_DURATION
      /\ \/ regime' \in {"idle", "explosion", "dispersion"}
         \/ regime' = "morph" /\ abs(particle.target - particle.current) > 20) =>
       particle'.current = particle.current]_vars

\* C28: while orbiting, the radial term of the velocity points toward the
\* centre when the particle is farther from the centre than the target
\* distance 20, and away from it when the particle is nearer.
C28_RadialCorrection ==
  (Mode = "orbit" /\ orbitBounds # NoBounds) =>
    LET toCentre == orbitBounds[1] - particle.current
        distance == abs(toCentre)
        term     == sgn(toCentre) * radialSpeed(particle, distance)
    IN  /\ distance > 20 * 200 => term * toCentre > 0
        /\ (distance < 20 * 200 /\ distance > 0) => term * toCentre < 0

(***************************************************************************)
(* Further claims about the target text effect (checked under SpecHook)    *)
(***************************************************************************)
\* C23: when the effect handles a target text that is not null and not among
\* the pre-generated texts, it issues no engine call and starts no timer:
\* the engine is as it was.
C23_MissingLabelNoOp ==
  [][(/\ handled' = handled + 1
      /\ targetText # NULL
      /\ targetText \notin {"SoC", "Curiosity", "Ingenuity", "Deterministic",
                            "SP School Of Computing"}) =>
       (UNCHANGED engVars /\ issuedBy' = issuedBy /\ timers' = timers)]_vars

\* the unlisted text was handled after 'SoC': the engine still orbits as
\* the handler of 'SoC' left it
C23_Witness ==
  /\ targetText = "Unlisted" /\ prevTargetText = "Unlisted" /\ ~effectPending
  /\ handled = 2
  /\ LastOp = "orbitAroundBounds" /\ issuedBy = "effect" /\ Mode = "orbit"

\* C38: in every reachable state of RapidPulseBuffer each event has fromType
\* different from toType, the timestamps are non-decreasing in buffer order,
\* the toType of each event is the fromType of the next, and the toType of
\* the last event is lastGesture.
C38_BufferStructure ==
  /\ \A i \in 1..Len(buffer) : buffer[i].fromType # buffer[i].toType
  /\ \A i \in 1..Len(buffer) - 1 :
       /\ buffer[i].timestamp <= buffer[i + 1].timestamp
       /\ buffer[i].toType = buffer[i + 1].fromType
  /\ Len(buffer) > 0 => buffer[Len(buffer)].toType = lastGesture

\* three events at three different times, the first older ones having been
\* filtered out or never recorded
C38_Witness ==
  /\ Len(buffer) = 3
  /\ buffer[1].timestamp < buffer[2].timestamp
  /\ buffer[2].timestamp < buffer[3].timestamp
  /\ buffer[1].fromType = "POINT"
  /\ lastGesture = buffer[3].toType

(***************************************************************************)
(* Further claims about useGestureRecognizer (checked under SpecRecognizer)*)
(***************************************************************************)
\* C35: the first gesture that passes the gate after a tick on which the
\* rapid pulse fired resolves to the text looked up for its category; the
\* combination text is never the result of two gesture ticks in a row.
C35_ComboLastsOneTick ==
  [][(ticks' = ticks + 1 /\ Len(hist') = Len(hist) + 1) =>
       /\ (fired >= 1 /\ lastGesture = NULL) =>
            /\ pulseResult' = "false"
            /\ recText' = lookupText(gesture'.type)
       /\ recText = "SP School Of Computing" => recText' # "SP School Of Computing"]_vars

\* the tick after the pulse fired carries a FIST again: no text
C35_Witness ==
  /\ ticks = 5 /\ Len(hist) = 5 /\ fired = 1
  /\ pulseResult = "false" /\ ~isRapidPulse
  /\ gesture.type = "FIST" /\ recText = NULL /\ currentGesture = gesture
  /\ hist[4][1] = "FIST"

\* C36: a tick with no landmarks and a tick whose gesture fails the
\* confidence gate leave the events and lastGesture of the pulse buffer
\* unchanged, so alternations separated by such ticks count toward one pulse.
C36_HandLossKeepsBuffer ==
  [][(/\ ticks' = ticks + 1
      /\ \/ landmarks'.isNull
         \/ Len(landmarks'.points) = 0
         \/ classify(landmarks').confidence <= 80) =>
       UNCHANGED <<buffer, lastGesture, hist>>]_vars

\* the pulse fires on the fifth tick, the four gestures fed being 0.4 s apart
\* except two of them, which a tick that fed nothing separates
C36_Witness ==
  /\ ticks = 5 /\ Len(hist) = 4 /\ fired = 1 /\ isRapidPulse
  /\ recText = "SP School Of Computing"
  /\ hist[1][2] = 400
  /\ \E i \in 1..3 : hist[i + 1][2] - hist[i][2] = 800

\* C40: every text the recogniser emits is null or one of the pre-generated
\* texts, so the effect never skips a text of the recogniser as unknown.
C40_EmittedLabelsPrecomputed ==
  /\ recText # NULL =>
       recText \in {"SoC", "Curiosity", "Ingenuity", "Deterministic",
                    "SP School Of Computing"}
  /\ recText # NULL => preGenerated(recText)

\* a listed text of a category is emitted on the tick after the pulse fired
C40_Witness ==
  /\ fired = 1 /\ ~isRapidPulse /\ tickKind = "passed"
  /\ recText \in {"SoC", "Deterministic"} /\ preGenerated(recText)

(***************************************************************************)
(* Claims about single steps of ParticleSystem.update (checked under       *)
(* SpecEngine)                                                             *)
(***************************************************************************)
\* C37: the first update after explode() whose deltaTime is at least
\* EXPLOSION_DURATION, and the first update after disperse() whose deltaTime
\* is at least DISPERSION_DURATION, moves no particle and ends the mode on
\* that tick: the decay factor is computed after deltaTime has been added to
\* the timer.
C37_SingleOversizedStep ==
  [][(updates' = updates + 1 /\ elapsed = 0) =>
       /\ (lastApi = "explode" /\ elapsed' >= EXPLOSION_DURATION) =>
            /\ regime' = "explosion"
            /\ particle'.current = particle.current
            /\ ~isExploding'
       /\ (lastApi = "disperse" /\ elapsed' >= DISPERSION_DURATION) =>
            /\ regime' = "dispersion"
            /\ particle'.current = particle.current
            /\ ~isDispersing']_vars

\* explode(); update(0.5): a particle with an explosion velocity has not
\* moved and the explosion is over
C37_Witness ==
  /\ lastApi = "explode" /\ regime = "explosion"
  /\ updates = 1 /\ elapsedBefore = 0 /\ elapsed = EXPLOSION_DURATION
  /\ explosionTime = EXPLOSION_DURATION
  /\ particle.velocity # 0
  /\ displacedBy = "none"
  /\ ~isExploding

\* C39: every update runs exactly one regime, the first of exploding,
\* dispersing, orbiting, idle, morphing whose flag is set; a mode of lower
\* priority keeps its flag and its timer while a higher one runs, and when it
\* runs again its timer goes on from the value it had.
C39_DispatchPriority ==
  [][updates' = updates + 1 =>
       /\ regime' = IF isExploding THEN "explosion"
                    ELSE IF isDispersing THEN "dispersion"
                    ELSE IF isOrbiting THEN "orbit"
                    ELSE IF isIdle THEN "idle"
                    ELSE "morph"
       /\ regime' = "explosion" =>
            UNCHANGED <<isDispersing, isOrbiting, isIdle, dispersionTime, orbitTime>>
       /\ regime' = "dispersion" =>
            /\ UNCHANGED <<isOrbiting, orbitTime, explosionTime>>
            /\ dispersionTime' - dispersionTime \in DeltaTimes
       /\ regime' = "orbit" =>
            /\ UNCHANGED <<isIdle, explosionTime, dispersionTime>>
            /\ orbitBounds # NoBounds => orbitTime' - orbitTime \in DeltaTimes
       /\ regime' \in {"idle", "morph"} =>
            UNCHANGED <<flagVars, explosionTime, dispersionTime, orbitTime>>]_vars

\* orbitAroundBounds(); update(0.2); explode(); update(0.5): the explosion has
\* run and ended, the orbit kept its flag and its timer and is what the next
\* update runs
C39_Witness ==
  /\ lastApi = "explode" /\ regime = "explosion"
  /\ ~isExploding
  /\ isOrbiting /\ orbitTime = 2
  /\ updates = 2
  /\ Mode = "orbit"

(***************************************************************************)
(* Further claims about useParticleSystem (checked under SpecHook)         *)
(***************************************************************************)
\* C33: whenever the effect handles a newly emitted non-null target text of
\* the pre-generated set, it hands the anchor points of that text to
\* ParticleSystem.setTarget, so the engine is morphing afterwards.
C33_AnchorPointsReachEngine ==
  [][(handled' = handled + 1 /\ targetText # NULL
        /\ targetText \in TEXTS_TO_GENERATE) =>
       /\ lastApi' = "setTarget"
       /\ Mode' = "morph"]_vars

(***************************************************************************)
(* Claims about ParticleSystem.setTarget (checked under SpecAssign)        *)
(***************************************************************************)
\* the particles given anchor a
particlesAt(a) == {k \in 0..(particleCount - 1) : targets[k].anchor = a}
\* the place of particle k in the shuffled order
rank(k) == CHOOSE r \in 0..(particleCount - 1) : shuffledIndices[r] = k

\* C31: when setTarget has run with M >= 1 anchor points on N particles, the
\* shuffled index array is a permutation of the particle indices and every
\* particle was given exactly one anchor; every anchor holds floor(N/M) or
\* ceil(N/M) particles, at least one when N >= M; a particle of layer 0 has
\* the coordinates of its anchor, and one of layer k is within 0.025 * k of
\* them on every axis.
C31_TargetAssignment ==
  asgPhase = "done" =>
    /\ {shuffledIndices[k] : k \in 0..(particleCount - 1)} = 0..(particleCount - 1)
    /\ \A k \in 0..(particleCount - 1) :
         /\ targets[k].times = 1
         /\ targets[k].anchor \in 0..(targetCount - 1)
    /\ \A a \in 0..(targetCount - 1) :
         /\ Cardinality(particlesAt(a))
              \in {particleCount \div targetCount,
                   (particleCount + targetCount - 1) \div targetCount}
         /\ particleCount >= targetCount => Cardinality(particlesAt(a)) >= 1
    /\ \A k \in 0..(particleCount - 1), axis \in 1..3 :
         LET offset == targets[k].target[axis] - points(targetCount)[targets[k].anchor][axis]
             round_ == rank(k) \div targetCount
         IN  /\ targets[k].anchor = rank(k) % targetCount
             /\ round_ = 0 => offset = 0
             /\ abs(offset) <= 5 * round_

\* three particles on two anchors: the shuffle moved particle 0, anchor 0
\* holds two particles and anchor 1 one, and the particle of layer 1 is off
\* its anchor
C31_Witness ==
  /\ asgPhase = "done"
  /\ particleCount = 3 /\ targetCount = 2
  /\ shuffledIndices[0] # 0
  /\ Cardinality(particlesAt(0)) = 2 /\ Cardinality(particlesAt(1)) = 1
  /\ \E k \in 0..2 :
       /\ targets[k].layer = 1
       /\ targets[k].target # points(2)[targets[k].anchor]

(***************************************************************************)
(* Claims about the orbit tangent (checked under SpecOrbit)                *)
(***************************************************************************)
\* the radial vector the last orbit call started from is parallel to v
parallelTo(v) ==
  LET c == crossVectors(orbTangent.radial, v)
  IN  ~c.nan /\ c.x = 0 /\ c.y = 0 /\ c.z = 0

finite(v) == ~v.nan

\* C32: whenever the radial vector of a particle is parallel to its orbit
\* axis, orbitAroundBounds and updateOrbiting take the tangent from the
\* alternate axis (1,0,0); and in no case, the radial vector parallel to
\* (1,0,0) as well or the particle at the centre included, is a component of
\* the velocity or of the position NaN.
C32_DegenerateTangent ==
  orbCall # "none" =>
    /\ parallelTo(orbParticle.orbitAxis) =>
         /\ orbTangent.axis = "altAxis"
         /\ orbTangent.vector = normalize(crossVectors(orbTangent.radial, Vec(UnitLength, 0, 0)))
    /\ finite(orbTangent.vector)
    /\ finite(orbParticle.velocity)
    /\ finite(orbParticle.current)

\* updateOrbiting on a particle whose radial vector, orbit axis and the
\* alternate axis are all parallel: the tangent is the zero vector and the
\* velocity is the radial correction alone
C32_Witness ==
  /\ orbCall = "updateOrbiting"
  /\ orbTangent.radial # Vec(0, 0, 0)
  /\ parallelTo(orbParticle.orbitAxis)
  /\ parallelTo(Vec(UnitLength, 0, 0))
  /\ orbTangent.axis = "altAxis"
  /\ orbTangent.vector = Vec(0, 0, 0)
  /\ orbParticle.velocity # Vec(0, 0, 0)

(***************************************************************************)
(* Claims about useMediaPipeHands (checked under SpecTracking)             *)
(***************************************************************************)
\* C34: wherever in the asynchronous initialisation the component unmounts,
\* once every pending step has finished the tracks of the media stream are
\* stopped, the tracker is disposed, its camera is not running, and
\* isTracking has not been set to true after the unmount.
C34_CleanupOnUnmount ==
  (~mounted /\ initStep \in {"done", "failed"}) =>
    /\ streamTracks # "live"
    /\ hands # "open"
    /\ ~camera
    /\ cameraState \notin {"starting", "running"}
    /\ ~isTracking

=============================================================================
